---- MODULE Spec2Model ----
(***************************************************************************)
(* Plugin orchestration layer and cost normalisation of the construction  *)
(* document analyser: the plugin registry (plugins/registry.py), the      *)
(* PluginManager (plugins/base.py) and the domain plugins' analyze /      *)
(* format_results (plugins/{mep,architectural,structural}/*_plugin.py).   *)
(*                                                                         *)
(* JSON / Python values are tagged records [k |-> kind, v |-> payload].   *)
(* Numbers have two decimals: Num(100 * n); money is in cents.            *)
(***************************************************************************)
EXTENDS Integers, Sequences, FiniteSets, TLC

VARIABLES
    plugins,          \* PluginManager.plugins : id -> class of the instance
    enabled_plugins,  \* PluginManager.enabled_plugins : set of ids
    pc,               \* position of the run_all_enabled_plugins coroutine
    run,              \* its locals: text, context, ids left to iterate, results
    ret,              \* observation of the last completed manager call
    PLUGINS,          \* registry._PLUGINS : id -> class
    regLog,           \* history of the register_plugin calls on the registry
    resp,             \* analyze: the LLM behaviour handed to a domain plugin
    parsed,           \* analyze: what the plugin returned for resp
    fmtIn,            \* format_results: plugin class and result passed in
    fmtOut,           \* format_results: its outcome
    pair,             \* two run_all_enabled_plugins executions, one after the other
    sched,            \* the event loop: its tasks and the one it is executing
    db                \* the subscription tables, the clock, the last service call

vars == <<plugins, enabled_plugins, pc, run, ret, PLUGINS, regLog,
          resp, parsed, fmtIn, fmtOut, pair, sched, db>>

----------------------------------------------------------------------------
(* Bounds *)

MaxTextLen == 1
MaxRespLen == 4
MaxRegs == 3

----------------------------------------------------------------------------
(* Python / JSON values *)

\* A JSON string is Txt(<sequence of one-character strings>); Str(...) holds
\* the messages the code itself builds; Raw(...) a response text kept as is.
\* A JSON number n is Num(100 * n): two decimals, fixed point.

Null == [k |-> "null", v |-> 0]
Num(n) == [k |-> "num", v |-> n]
Str(s) == [k |-> "str", v |-> s]
Raw(s) == [k |-> "raw", v |-> s]
List(s) == [k |-> "list", v |-> s]
Dict(f) == [k |-> "dict", v |-> f]
Bool(b) == [k |-> "bool", v |-> b]
Txt(s) == [k |-> "txt", v |-> s]
Q(n) == Num(100 * n)
EmptyMap == << >>

IsDict(x) == x.k = "dict"

\* bool(x)
Truthy(x) ==
    CASE x.k = "null" -> FALSE
      [] x.k = "num" -> x.v # 0
      [] x.k = "str" -> x.v # ""
      [] x.k = "list" -> x.v # << >>
      [] x.k = "dict" -> DOMAIN x.v # {}
      [] x.k = "bool" -> x.v
      [] OTHER -> x.v # << >>

\* key in d, for a dict d
HasKey(d, key) == key \in DOMAIN d.v

\* d.get(key, default), for a dict d
Get(d, key, default) == IF key \in DOMAIN d.v THEN d.v[key] ELSE default

\* d[key] = value, for a dict d
Put(d, key, value) ==
    Dict([x \in DOMAIN d.v \cup {key} |-> IF x = key THEN value ELSE d.v[x]])

----------------------------------------------------------------------------
(* Outcomes of calls: a returned value or a raised exception *)

NoExc == [type |-> "", msg |-> ""]
Exc(type, msg) == [type |-> type, msg |-> msg]
Return(value) == [raised |-> FALSE, exc |-> NoExc, value |-> value]
Raise(exc) == [raised |-> TRUE, exc |-> exc, value |-> Null]

\* str(e)
StrOf(exc) == exc.msg

----------------------------------------------------------------------------
(* Plugin classes *)

DomainClasses == {"WallsPartitionsPlugin", "DoorsWindowsPlugin",
                  "ElectricalSystemsPlugin", "PlumbingSystemsPlugin",
                  "HVACSystemsPlugin", "ConcreteStructuresPlugin"}

\* CustomPlugin, CustomPluginV2: AnalysisPlugin subclasses that keep the base
\* validate_input and format_results and share one id.  NoIdPlugin keeps the
\* base class's empty id.
Classes == DomainClasses \cup {"CustomPlugin", "CustomPluginV2", "NoIdPlugin"}

ClassId(cls) ==
    CASE cls = "WallsPartitionsPlugin" -> "architectural.walls_partitions"
      [] cls = "DoorsWindowsPlugin" -> "architectural.doors_windows"
      [] cls = "ElectricalSystemsPlugin" -> "mep.electrical_systems"
      [] cls = "PlumbingSystemsPlugin" -> "mep.plumbing_systems"
      [] cls = "HVACSystemsPlugin" -> "mep.hvac_systems"
      [] cls = "ConcreteStructuresPlugin" -> "structural.concrete"
      [] cls = "CustomPlugin" -> "custom.plugin"
      [] cls = "CustomPluginV2" -> "custom.plugin"
      [] cls = "NoIdPlugin" -> ""

----------------------------------------------------------------------------
(* Document text and AnalysisPlugin.validate_input *)

\* A text is a sequence of characters; " " stands for any whitespace
\* character, "a" for any other character.
TextChars == {" ", "a"}

RECURSIVE SeqsUpTo(_, _)
SeqsUpTo(S, n) ==
    IF n = 0 THEN {<< >>}
    ELSE LET shorter == SeqsUpTo(S, n - 1)
         IN  shorter \cup {Append(s, c) : s \in {t \in shorter : Len(t) = n - 1}, c \in S}

Texts == SeqsUpTo(TextChars, MaxTextLen)

IsSpace(c) == c = " "

RECURSIVE LStrip(_)
LStrip(s) == IF s # << >> /\ IsSpace(Head(s)) THEN LStrip(Tail(s)) ELSE s

RECURSIVE RStrip(_)
RStrip(s) ==
    IF s # << >> /\ IsSpace(s[Len(s)]) THEN RStrip(SubSeq(s, 1, Len(s) - 1)) ELSE s

\* str.strip()
Strip(s) == RStrip(LStrip(s))

\* bool(text and text.strip())
validate_input(text) == text # << >> /\ Strip(text) # << >>

----------------------------------------------------------------------------
(* The LLM response and its parsing in a domain plugin's analyze *)

\* The response text is a sequence of lexical tokens:
\*   "{" "}" ","   JSON punctuation
\*   "notes"       the member  "notes": []
\*   "error"       the member  "error": "boom"
\*   "cost_null"   the member  "cost_estimates": null
\*   "42"          a JSON number (a valid JSON text that is not an object)
\*   "FENCE_OPEN"  three backquotes, json, newline
\*   "FENCE_CLOSE" newline, three backquotes
\*   "prose"       text that is not JSON
\*   "power"       the member  "power": [{"type": "GFCI", "quantity": 2}]
\*   "walls"       the member  "walls": [{"material": "Concrete", "quantity": 10}]
MemberTokens == {"notes", "error", "cost_null", "power", "walls"}
RespTokens == {"{", "}", ",", "42", "FENCE_OPEN", "FENCE_CLOSE", "prose"} \cup MemberTokens

MemberKey(tok) == IF tok = "cost_null" THEN "cost_estimates" ELSE tok

MemberValue(tok) ==
    CASE tok = "notes" -> List(<< >>)
      [] tok = "error" -> Txt(<<"b", "o", "o", "m">>)
      [] tok = "cost_null" -> Null
      [] tok = "power" ->
           List(<<Dict("type" :> Txt(<<"G", "F", "C", "I">>) @@ "quantity" :> Num(200))>>)
      [] tok = "walls" ->
           List(<<Dict("material" :> Txt(<<"C", "o", "n", "c", "r", "e", "t", "e">>)
                       @@ "quantity" :> Num(1000))>>)

\* The members of an object body  m , m , ... , m  (empty body allowed)
WellFormedMembers(body) ==
    \/ body = << >>
    \/ /\ Len(body) % 2 = 1
       /\ \A i \in 1..Len(body) :
            IF i % 2 = 1 THEN body[i] \in MemberTokens ELSE body[i] = ","

\* A later member with the same key replaces an earlier one.
MembersDict(body) ==
    LET keys == {MemberKey(body[i]) : i \in {j \in 1..Len(body) : j % 2 = 1}}
        last(key) == CHOOSE i \in 1..Len(body) :
                        /\ i % 2 = 1 /\ MemberKey(body[i]) = key
                        /\ \A j \in (i + 1)..Len(body) :
                              j % 2 = 1 => MemberKey(body[j]) # key
    IN  Dict([key \in keys |-> MemberValue(body[last(key)])])

\* json.loads(s): ok = FALSE stands for JSONDecodeError
json_loads(s) ==
    IF s = <<"42">> THEN [ok |-> TRUE, value |-> Q(42)]
    ELSE IF /\ Len(s) >= 2 /\ s[1] = "{" /\ s[Len(s)] = "}"
            /\ WellFormedMembers(SubSeq(s, 2, Len(s) - 1))
         THEN [ok |-> TRUE, value |-> MembersDict(SubSeq(s, 2, Len(s) - 1))]
         ELSE [ok |-> FALSE, value |-> Null]

\* re.search(FENCE_OPEN (.*?) FENCE_CLOSE, s, re.DOTALL): the leftmost opening
\* fence and the first closing fence after it; group1 is the text between.
FenceSearch(s) ==
    LET opens == {i \in 1..Len(s) : s[i] = "FENCE_OPEN"}
        first == CHOOSE i \in opens : \A j \in opens : i <= j
        closes == {i \in 1..Len(s) : s[i] = "FENCE_CLOSE" /\ i > first}
        close == CHOOSE i \in closes : \A j \in closes : i <= j
    IN  IF opens = {} \/ closes = {}
        THEN [found |-> FALSE, group1 |-> << >>]
        ELSE [found |-> TRUE, group1 |-> SubSeq(s, first + 1, close - 1)]

\* What the LLM call does: raise, or return a response text.
LLMRaise(msg) == [kind |-> "raise", msg |-> msg, content |-> << >>]
LLMContent(s) == [kind |-> "content", msg |-> "", content |-> s]

JSONDecodeErrorMsg == "Expecting value: line 1 column 1 (char 0)"

CouldNotParse(ai_response) ==
    Dict("error" :> Str("Could not parse AI response as JSON")
         @@ "raw_response" :> Raw(ai_response))

ErrorAnalyzing(msg) == Dict("error" :> Str("Error analyzing document: " \o msg))

\* The json.JSONDecodeError handler of analyze: the fenced block, else the
\* raw response.  json.loads of the fenced block runs inside the outer try.
ParseFenced(ai_response) ==
    LET json_match == FenceSearch(ai_response)
        inner == json_loads(json_match.group1)
    IN  IF json_match.found
        THEN IF inner.ok THEN Return(inner.value)
             ELSE Raise(Exc("JSONDecodeError", JSONDecodeErrorMsg))
        ELSE Return(CouldNotParse(ai_response))

\* analyze without the outer except clause: a failing LLM call propagates
AnalyzeDomainReraises(text, context, llm) ==
    IF ~validate_input(text)
    THEN Return(Dict("error" :> Str("Invalid input text for analysis")))
    ELSE IF llm.kind = "raise"
    THEN Raise(Exc("RuntimeError", llm.msg))
    ELSE LET direct == json_loads(llm.content)
             fenced == ParseFenced(llm.content)
         IN  IF direct.ok THEN Return(direct.value) ELSE fenced

\* analyze of the six domain plugins (the same code in each).
AnalyzeDomain(text, context, llm) ==
    IF ~validate_input(text)
    THEN Return(Dict("error" :> Str("Invalid input text for analysis")))
    ELSE IF llm.kind = "raise"
    THEN Return(ErrorAnalyzing(llm.msg))
    ELSE LET direct == json_loads(llm.content)
             fenced == ParseFenced(llm.content)
         IN  IF direct.ok THEN Return(direct.value)
             ELSE IF fenced.raised THEN Return(ErrorAnalyzing(StrOf(fenced.exc)))
             ELSE fenced

----------------------------------------------------------------------------
(* Strings of the analysis results, numbers, and the Python operations the *)
(* cost calculators apply to them                                          *)


PyType(x) ==
    CASE x.k = "null" -> "NoneType"
      [] x.k = "num" -> "int"
      [] x.k \in {"txt", "str", "raw"} -> "str"
      [] x.k = "list" -> "list"
      [] x.k = "dict" -> "dict"
      [] x.k = "bool" -> "bool"

NoAttribute(x, attr) ==
    Exc("AttributeError", "'" \o PyType(x) \o "' object has no attribute '" \o attr \o "'")
NotIterable(x) ==
    Exc("TypeError", "'" \o PyType(x) \o "' object is not iterable")
NotContainer(x) ==
    Exc("TypeError", "argument of type '" \o PyType(x) \o "' is not iterable")
BadOperand(op, x) ==
    Exc("TypeError", "unsupported operand type(s) for " \o op \o ": '" \o PyType(x) \o "'")

UpperChars == <<"A", "B", "C", "D", "E", "F", "G", "H", "I", "J", "K", "L", "M",
                "N", "O", "P", "Q", "R", "S", "T", "U", "V", "W", "X", "Y", "Z">>
LowerChars == <<"a", "b", "c", "d", "e", "f", "g", "h", "i", "j", "k", "l", "m",
                "n", "o", "p", "q", "r", "s", "t", "u", "v", "w", "x", "y", "z">>

LowerChar(c) ==
    IF \E i \in 1..26 : UpperChars[i] = c
    THEN LowerChars[CHOOSE i \in 1..26 : UpperChars[i] = c]
    ELSE c

UpperChar(c) ==
    IF \E i \in 1..26 : LowerChars[i] = c
    THEN UpperChars[CHOOSE i \in 1..26 : LowerChars[i] = c]
    ELSE c

\* str.lower(), str.upper() on a character sequence
LowerSeq(s) == [i \in 1..Len(s) |-> LowerChar(s[i])]
UpperSeq(s) == [i \in 1..Len(s) |-> UpperChar(s[i])]

\* needle in hay, for two character sequences
Contains(hay, needle) ==
    \E i \in 1..(Len(hay) - Len(needle) + 1) :
        SubSeq(hay, i, i + Len(needle) - 1) = needle

\* x or default
OrElse(x, default) == IF Truthy(x) THEN x ELSE default

\* item.get(key, "").lower(): the lowered character sequence, or AttributeError
GetLower(item, key) ==
    LET x == Get(item, key, Txt(<< >>))
    IN  IF x.k = "txt" THEN Return(LowerSeq(x.v)) ELSE Raise(NoAttribute(x, "lower"))

\* for item in results.get(key, []): the sequence iterated, or TypeError.
\* Iterating a dict or a string yields strings.
IterOf(x) ==
    CASE x.k = "list" -> Return(x.v)
      [] x.k = "dict" -> Return([i \in 1..Cardinality(DOMAIN x.v) |-> Txt(<<"k">>)])
      [] x.k = "txt" -> Return([i \in 1..Len(x.v) |-> Txt(<<x.v[i]>>)])
      [] OTHER -> Raise(NotIterable(x))

GetIter(results, key) == IterOf(Get(results, key, List(<< >>)))

\* Costs accumulate in mills (1/1000 of a dollar): the product of a rate with
\* one decimal and a quantity with two.
\* rate * quantity: rate in cents, quantity a result value
Times(rate, quantity) ==
    IF quantity.k = "num"
    THEN Return((rate \div 10) * quantity.v + ((rate % 10) * quantity.v) \div 10)
    ELSE IF quantity.k = "bool" THEN Return(IF quantity.v THEN rate * 10 ELSE 0)
    ELSE Raise(BadOperand("*", quantity))

\* n / d rounded half to even, for n >= 0 and d > 0
RoundDiv(n, d) ==
    LET q == n \div d
        r == n % d
    IN  IF 2 * r > d \/ (2 * r = d /\ q % 2 = 1) THEN q + 1 ELSE q

\* cost * num / d rounded half to even, for cost >= 0, without forming cost * num
RoundScaled(cost, num, d) ==
    LET q == (cost \div d) * num + ((cost % d) * num) \div d
        r == ((cost % d) * num) % d
    IN  IF 2 * r > d \/ (2 * r = d /\ q % 2 = 1) THEN q + 1 ELSE q

\* round(cost * ratio, 2) if cost * ratio > 0 else None, for a cost in mills
\* and the ratio num / den; the result is in cents
CostOrNone(cost, num, den) ==
    IF cost > 0 THEN Num(RoundScaled(cost, num, 10 * den)) ELSE Null

\* The first raised outcome of a sequence of outcomes, else the sum of their
\* values (costs accumulate in source order and an exception ends the call).
RECURSIVE SumTerms(_)
SumTerms(terms) ==
    IF terms = << >> THEN Return(0)
    ELSE IF Head(terms).raised THEN Head(terms)
    ELSE LET rest == SumTerms(Tail(terms))
         IN  IF rest.raised THEN rest ELSE Return(Head(terms).value + rest.value)

\* One term per element of an iterated list; the iteration itself may raise.
LoopTerms(iter, Term(_)) ==
    IF iter.raised THEN <<iter>> ELSE [i \in 1..Len(iter.value) |-> Term(iter.value[i])]

\* item.get(...) on something that is not a dict
ItemGuard(item, term) == IF IsDict(item) THEN term ELSE Raise(NoAttribute(item, "get"))

\* An outcome whose value is used by cont(_) when it did not raise
Then(outcome, cont(_)) == IF outcome.raised THEN outcome ELSE cont(outcome.value)

----------------------------------------------------------------------------
(* ElectricalSystemsPlugin.format_results: the cost calculation *)

\* the costs table, in cents
ElectricalCosts ==
    [service |-> 400000, panel |-> 150000, transformer |-> 300000,
     switchgear |-> 1000000, light_fixture |-> 20000, led |-> 25000,
     controls |-> 30000, receptacle |-> 4500, gfci |-> 6500, special |-> 12000,
     data |-> 200000, security |-> 300000, fire_alarm |-> 500000,
     generator |-> 1500000, ups |-> 400000, general |-> 500000]

\* a fixed amount added once: cents to mills
Flat(rate) == Return(rate * 10)

\* quantity = item.get("quantity", 1) or 1
QuantityOrOne(item) == OrElse(Get(item, "quantity", Q(1)), Q(1))

ElecServiceTerm(results) ==
    IF Truthy(Get(results, "electrical_service", Dict(EmptyMap)))
    THEN Flat(ElectricalCosts.service) ELSE Return(0)

ElecDistributionTerm(item) ==
    ItemGuard(item,
      Then(GetLower(item, "type"), LAMBDA item_type :
        Times(IF Contains(item_type, <<"p", "a", "n", "e", "l">>) THEN ElectricalCosts.panel
              ELSE IF Contains(item_type, <<"t", "r", "a", "n", "s", "f", "o", "r", "m", "e", "r">>) THEN ElectricalCosts.transformer
              ELSE IF Contains(item_type, <<"s", "w", "i", "t", "c", "h", "g", "e", "a", "r">>) THEN ElectricalCosts.switchgear
              ELSE ElectricalCosts.general,
              QuantityOrOne(item))))

ElecLightingTerm(item) ==
    ItemGuard(item,
      Then(GetLower(item, "type"), LAMBDA item_type :
        Then(Times(IF Contains(item_type, <<"l", "e", "d">>) THEN ElectricalCosts.led
                   ELSE ElectricalCosts.light_fixture,
                   QuantityOrOne(item)), LAMBDA fixtures :
          Then(GetLower(item, "control_type"), LAMBDA control_type :
            Return(fixtures + IF Contains(control_type, <<"c", "o", "n", "t", "r", "o", "l">>)
                              THEN ElectricalCosts.controls * 10 ELSE 0)))))

\* "gfci" in item_type or "gfci" in special_requirements, elif "special" in
\* item_type or "dedicated" in circuit_type: the right operand of an or is
\* evaluated only when the left one is false.
ElecPowerTerm(item) ==
    ItemGuard(item,
      Then(GetLower(item, "type"), LAMBDA item_type :
        LET quantity == QuantityOrOne(item)
            special_requirements == GetLower(item, "special_requirements")
            circuit_type == GetLower(item, "circuit_type")
            orSpecial ==
                IF Contains(item_type, <<"s", "p", "e", "c", "i", "a", "l">>)
                THEN Times(ElectricalCosts.special, quantity)
                ELSE Then(circuit_type, LAMBDA ct :
                       Times(IF Contains(ct, <<"d", "e", "d", "i", "c", "a", "t", "e", "d">>) THEN ElectricalCosts.special
                             ELSE ElectricalCosts.receptacle, quantity))
        IN  IF Contains(item_type, <<"g", "f", "c", "i">>)
            THEN Times(ElectricalCosts.gfci, quantity)
            ELSE Then(special_requirements, LAMBDA sr :
                   IF Contains(sr, <<"g", "f", "c", "i">>) THEN Times(ElectricalCosts.gfci, quantity)
                   ELSE orSpecial)))

ElecLowVoltageTerm(item) ==
    ItemGuard(item,
      Then(GetLower(item, "system_type"), LAMBDA system_type :
        Flat(IF Contains(system_type, <<"d", "a", "t", "a">>) \/ Contains(system_type, <<"n", "e", "t", "w", "o", "r", "k">>)
             THEN ElectricalCosts.data
             ELSE IF Contains(system_type, <<"s", "e", "c", "u", "r", "i", "t", "y">>) THEN ElectricalCosts.security
             ELSE IF Contains(system_type, <<"f", "i", "r", "e">>) /\ Contains(system_type, <<"a", "l", "a", "r", "m">>)
             THEN ElectricalCosts.fire_alarm
             ELSE ElectricalCosts.general)))

ElecEmergencyTerm(results) ==
    LET emergency == Get(results, "emergency_power", Dict(EmptyMap))
    IN  IF ~Truthy(emergency) THEN Return(0)
        ELSE ItemGuard(emergency,
               Then(GetLower(emergency, "type"), LAMBDA emergency_type :
                 Flat(IF Contains(emergency_type, <<"g", "e", "n", "e", "r", "a", "t", "o", "r">>) THEN ElectricalCosts.generator
                      ELSE IF Contains(emergency_type, <<"u", "p", "s">>) THEN ElectricalCosts.ups
                      ELSE ElectricalCosts.general)))

ElecSpecialTerm(item) == Flat(ElectricalCosts.general)

\* material_cost, in mills
ElectricalMaterial(results) ==
    SumTerms(<<ElecServiceTerm(results)>>
             \o LoopTerms(GetIter(results, "distribution"), ElecDistributionTerm)
             \o LoopTerms(GetIter(results, "lighting"), ElecLightingTerm)
             \o LoopTerms(GetIter(results, "power"), ElecPowerTerm)
             \o LoopTerms(GetIter(results, "low_voltage"), ElecLowVoltageTerm)
             \o <<ElecEmergencyTerm(results)>>
             \o LoopTerms(GetIter(results, "special_systems"), ElecSpecialTerm))

\* the entries written to results["cost_estimates"]; labor_cost = material_cost * 0.7
ElectricalCostBlock(results) ==
    Then(ElectricalMaterial(results), LAMBDA material_cost :
      Return("estimated_material_cost" :> CostOrNone(material_cost, 1, 1)
             @@ "estimated_labor_cost" :> CostOrNone(material_cost, 7, 10)
             @@ "currency" :> Txt(<<"U", "S", "D">>)))

----------------------------------------------------------------------------
(* Unit / quantity parser: re.search(r'(\d+(\.\d+)?)', s) and float(group 1) *)

Digits == <<"0", "1", "2", "3", "4", "5", "6", "7", "8", "9">>
IsDigit(c) == \E i \in 1..10 : Digits[i] = c
DigitVal(c) == (CHOOSE i \in 1..10 : Digits[i] = c) - 1

\* the value of a sequence of digits
RECURSIVE DigitsValue(_)
DigitsValue(ds) ==
    IF ds = << >> THEN 0
    ELSE 10 * DigitsValue(SubSeq(ds, 1, Len(ds) - 1)) + DigitVal(ds[Len(ds)])

\* the end of the run of digits that starts at position i of s
RECURSIVE RunEnd(_, _)
RunEnd(s, i) == IF i < Len(s) /\ IsDigit(s[i + 1]) THEN RunEnd(s, i + 1) ELSE i

\* The leftmost match of \d+(\.\d+)? in s.  value is float(group 1) in
\* hundredths; digits after the second decimal are dropped.
\* stop is the position of the last character matched.
NumberAt(s, i) ==
    LET j == RunEnd(s, i)
        hasFrac == j + 1 < Len(s) /\ s[j + 1] = "." /\ IsDigit(s[j + 2])
        l == IF hasFrac THEN RunEnd(s, j + 2) ELSE j
        frac == IF hasFrac THEN SubSeq(s, j + 2, l) ELSE << >>
        frac2 == SubSeq(frac \o <<"0", "0">>, 1, 2)
    IN  [value |-> 100 * DigitsValue(SubSeq(s, i, j)) + DigitsValue(frac2), stop |-> l]

FirstNumber(s) ==
    LET starts == {i \in 1..Len(s) : IsDigit(s[i])}
        i == CHOOSE x \in starts : \A y \in starts : x <= y
    IN  IF starts = {} THEN [found |-> FALSE, value |-> 0, stop |-> 0]
        ELSE [found |-> TRUE, value |-> NumberAt(s, i).value, stop |-> NumberAt(s, i).stop]

\* re.search(pattern, x) on a value that is not a string
NotAString(x) == Exc("TypeError", "expected string or bytes-like object")

\* the unit price of the longest keyword contained in label (of the earliest in
\* table order among the longest); the default when none is
LongestMatch(table, label, default) ==
    LET hits == {i \in 1..Len(table) : Contains(label, table[i][1])}
        i == CHOOSE x \in hits :
                \A y \in hits : \/ Len(table[x][1]) > Len(table[y][1])
                                \/ Len(table[x][1]) = Len(table[y][1]) /\ x <= y
    IN  IF hits = {} THEN default ELSE table[i][2]

\* The keyword tables: the unit price of the first keyword, in table order,
\* that is contained in label; the default when none is.
FirstMatch(table, label, default) ==
    LET hits == {i \in 1..Len(table) : Contains(label, table[i][1])}
        i == CHOOSE x \in hits : \A y \in hits : x <= y
    IN  IF hits = {} THEN default ELSE table[i][2]

----------------------------------------------------------------------------
(* WallsPartitionsPlugin.format_results: the cost calculation *)

\* the costs table in definition order, cents per square foot
WallCosts ==
    << <<<<"c", "o", "n", "c", "r", "e", "t", "e">>, 2200>>, <<<<"m", "a", "s", "o", "n", "r", "y">>, 1850>>, <<<<"w", "o", "o", "d", " ", "s", "t", "u", "d">>, 1200>>,
       <<<<"m", "e", "t", "a", "l", " ", "s", "t", "u", "d">>, 1450>>, <<<<"d", "r", "y", "w", "a", "l", "l">>, 250>>, <<<<"p", "l", "a", "s", "t", "e", "r">>, 500>>,
       <<<<"g", "e", "n", "e", "r", "a", "l">>, 1500>> >>

\* costs.get("general")
WallGeneralCost == WallCosts[7][2]

\* length * height of a wall whose quantity is falsy: the first numbers of the
\* two strings; a string without digits skips the wall (AttributeError is
\* caught), a dimension that is not a string raises TypeError.
WallDimensionsArea(wall) ==
    LET length == Get(wall, "length", Null)
        height == Get(wall, "height", Null)
    IN  IF ~(Truthy(length) /\ Truthy(height)) THEN Return(0)
        ELSE IF length.k # "txt" THEN Raise(NotAString(length))
        ELSE IF ~FirstNumber(length.v).found THEN Return(0)
        ELSE IF height.k # "txt" THEN Raise(NotAString(height))
        ELSE IF ~FirstNumber(height.v).found THEN Return(0)
        ELSE Return((FirstNumber(length.v).value * FirstNumber(height.v).value) \div 100)

\* one wall's (or partition's) share of total_area, in hundredths
WallAreaTerm(wall) ==
    ItemGuard(wall,
      LET quantity == Get(wall, "quantity", Null)
      IN  IF Truthy(quantity)
          THEN IF quantity.k = "num" THEN Return(quantity.v)
               ELSE Raise(BadOperand("+=", quantity))
          ELSE WallDimensionsArea(wall))

\* one wall's (or partition's) share of material_cost:
\* area = wall.get("quantity", 0); material_cost += area * cost_per_sf
WallMaterialTerm(wall) ==
    ItemGuard(wall,
      Then(GetLower(wall, "material"), LAMBDA material :
        Times(FirstMatch(WallCosts, material, WallGeneralCost),
              Get(wall, "quantity", Q(0)))))

\* labor_cost = material_cost * 0.65
WallsCostBlock(results) ==
    Then(SumTerms(LoopTerms(GetIter(results, "walls"), WallAreaTerm)), LAMBDA total_area :
      Then(SumTerms(LoopTerms(GetIter(results, "partitions"), WallAreaTerm)), LAMBDA partition_area :
        Then(SumTerms(LoopTerms(GetIter(results, "walls"), WallMaterialTerm)
                      \o LoopTerms(GetIter(results, "partitions"), WallMaterialTerm)),
             LAMBDA material_cost :
          Return("walls_total_area" :> Num(total_area)
                 @@ "walls_unit" :> Txt(<<"S", "F">>)
                 @@ "partitions_total_area" :> Num(partition_area)
                 @@ "partitions_unit" :> Txt(<<"S", "F">>)
                 @@ "estimated_material_cost" :> CostOrNone(material_cost, 1, 1)
                 @@ "estimated_labor_cost" :> CostOrNone(material_cost, 65, 100)
                 @@ "currency" :> Txt(<<"U", "S", "D">>)))))

----------------------------------------------------------------------------
(* DoorsWindowsPlugin.format_results: the cost calculation *)

\* door_costs and window_costs in definition order, cents per unit
DoorCosts ==
    << <<<<"h", "o", "l", "l", "o", "w", " ", "c", "o", "r", "e">>, 15000>>, <<<<"s", "o", "l", "i", "d", " ", "c", "o", "r", "e">>, 25000>>, <<<<"f", "i", "r", "e", " ", "r", "a", "t", "e", "d">>, 35000>>,
       <<<<"m", "e", "t", "a", "l">>, 40000>>, <<<<"g", "l", "a", "s", "s">>, 50000>>, <<<<"s", "l", "i", "d", "i", "n", "g">>, 45000>>,
       <<<<"b", "i", "-", "f", "o", "l", "d">>, 30000>>, <<<<"p", "o", "c", "k", "e", "t">>, 35000>>, <<<<"f", "r", "e", "n", "c", "h">>, 55000>>,
       <<<<"g", "e", "n", "e", "r", "a", "l">>, 30000>> >>

WindowCosts ==
    << <<<<"f", "i", "x", "e", "d">>, 30000>>, <<<<"s", "i", "n", "g", "l", "e", " ", "h", "u", "n", "g">>, 35000>>, <<<<"d", "o", "u", "b", "l", "e", " ", "h", "u", "n", "g">>, 40000>>,
       <<<<"c", "a", "s", "e", "m", "e", "n", "t">>, 45000>>, <<<<"a", "w", "n", "i", "n", "g">>, 40000>>, <<<<"s", "l", "i", "d", "i", "n", "g">>, 45000>>,
       <<<<"b", "a", "y">>, 120000>>, <<<<"b", "o", "w">>, 150000>>, <<<<"p", "i", "c", "t", "u", "r", "e">>, 60000>>,
       <<<<"g", "e", "n", "e", "r", "a", "l">>, 40000>> >>

\* float(match.group(1)) of a dimension string, 0 without a match; TypeError
\* when the value is not a string (only ValueError, AttributeError are caught)
Dimension(item, key) ==
    LET x == Get(item, key, Txt(<<"0">>))
    IN  IF x.k # "txt" THEN Raise(NotAString(x))
        ELSE Return(IF FirstNumber(x.v).found THEN FirstNumber(x.v).value ELSE 0)

\* the unit cost of a door with the premium from 42 on
DoorUnitCostFrom42(door_type, width) ==
    LET unit_cost == FirstMatch(DoorCosts, door_type, DoorCosts[10][2])
    IN  IF width >= 4200 THEN (unit_cost * 125) \div 100 ELSE unit_cost

\* unit cost of a door in cents: the 25% premium above 42 (width in hundredths)
DoorUnitCost(door_type, width) ==
    LET unit_cost == FirstMatch(DoorCosts, door_type, DoorCosts[10][2])
    IN  IF width > 4200 THEN (unit_cost * 125) \div 100 ELSE unit_cost

\* quantity = door.get("quantity", 1); door_count += quantity
CountGuard(item, term) ==
    LET quantity == Get(item, "quantity", Q(1))
    IN  IF quantity.k = "num" THEN term ELSE Raise(BadOperand("+=", quantity))

ItemCountTerm(item) == ItemGuard(item, CountGuard(item, Return(Get(item, "quantity", Q(1)).v)))

DoorCostTerm(door) ==
    ItemGuard(door, CountGuard(door,
      Then(GetLower(door, "type"), LAMBDA door_type :
        Then(Dimension(door, "width"), LAMBDA width :
          Times(DoorUnitCost(door_type, width), Get(door, "quantity", Q(1)))))))

\* the glazing premiums, applied one after the other; each product is kept
\* to the cent
Premium(unit_cost, applies, percent) ==
    IF applies THEN RoundDiv(unit_cost * percent, 100) ELSE unit_cost

WindowUnitCost(window_type, area, glazing) ==
    LET base == FirstMatch(WindowCosts, window_type, WindowCosts[10][2])
        sized == IF area > 2000 THEN RoundDiv(base * area, 1500) ELSE base
        lowE == Premium(sized, Contains(glazing, <<"l", "o", "w", "-", "e">>) \/ Contains(glazing, <<"l", "o", "w", " ", "e">>), 110)
        tempered == Premium(lowE, Contains(glazing, <<"t", "e", "m", "p", "e", "r", "e", "d">>), 115)
        insulated == Premium(tempered, Contains(glazing, <<"i", "n", "s", "u", "l", "a", "t", "e", "d">>) \/ Contains(glazing, <<"d", "o", "u", "b", "l", "e">>), 120)
    IN  Premium(insulated, Contains(glazing, <<"t", "r", "i", "p", "l", "e">>), 130)

\* area = width * height when both strings hold a number, else 0
WindowArea(window) ==
    LET w == Get(window, "width", Txt(<<"0">>))
        h == Get(window, "height", Txt(<<"0">>))
    IN  IF w.k # "txt" THEN Raise(NotAString(w))
        ELSE IF h.k # "txt" THEN Raise(NotAString(h))
        ELSE IF FirstNumber(w.v).found /\ FirstNumber(h.v).found
             THEN Return((FirstNumber(w.v).value * FirstNumber(h.v).value) \div 100)
             ELSE Return(0)

WindowCostTerm(window) ==
    ItemGuard(window, CountGuard(window,
      Then(GetLower(window, "type"), LAMBDA window_type :
        Then(WindowArea(window), LAMBDA area :
          Then(GetLower(window, "glazing"), LAMBDA glazing :
            Times(WindowUnitCost(window_type, area, glazing),
                  Get(window, "quantity", Q(1))))))))

\* sum(schedule.get("count", 0) for schedule in results.get(key, []))
ScheduleTerm(schedule) ==
    ItemGuard(schedule,
      LET count == Get(schedule, "count", Q(0))
      IN  IF count.k = "num" THEN Return(count.v) ELSE Raise(BadOperand("+", count)))

\* the count written: the items' quantities, else the schedule's counts
TotalCount(results, count, scheduleKey) ==
    IF count = 0 /\ Truthy(Get(results, scheduleKey, Null))
    THEN SumTerms(LoopTerms(GetIter(results, scheduleKey), ScheduleTerm))
    ELSE Return(count)

NumOrNone(n) == IF n > 0 THEN Num(n) ELSE Null

\* labour is not estimated for doors and windows
DoorsWindowsCostBlock(results) ==
    Then(SumTerms(LoopTerms(GetIter(results, "doors"), DoorCostTerm)), LAMBDA door_cost :
      Then(SumTerms(LoopTerms(GetIter(results, "windows"), WindowCostTerm)), LAMBDA window_cost :
        Then(TotalCount(results,
                        SumTerms(LoopTerms(GetIter(results, "doors"), ItemCountTerm)).value,
                        "door_schedule"), LAMBDA door_count :
          Then(TotalCount(results,
                          SumTerms(LoopTerms(GetIter(results, "windows"), ItemCountTerm)).value,
                          "window_schedule"), LAMBDA window_count :
            Return("doors_total_count" :> NumOrNone(door_count)
                   @@ "windows_total_count" :> NumOrNone(window_count)
                   @@ "estimated_doors_cost" :> CostOrNone(door_cost, 1, 1)
                   @@ "estimated_windows_cost" :> CostOrNone(window_cost, 1, 1)
                   @@ "currency" :> Txt(<<"U", "S", "D">>))))))

----------------------------------------------------------------------------
(* PlumbingSystemsPlugin.format_results: the cost calculation *)

\* the costs table, in cents
PlumbingCosts ==
    [copper |-> 1500, pex |-> 800, cpvc |-> 600, cast_iron |-> 2500, pvc |-> 500,
     abs |-> 600, toilet |-> 35000, urinal |-> 40000, sink |-> 25000,
     lavatory |-> 30000, shower |-> 50000, tub |-> 70000,
     drinking_fountain |-> 80000, water_heater_electric |-> 120000,
     water_heater_gas |-> 150000, water_heater_tankless |-> 200000,
     gas_piping |-> 2000, med_gas |-> 3500, general |-> 200000]

ColdPipeCost(pipe_material) ==
    IF Contains(pipe_material, <<"c", "o", "p", "p", "e", "r">>) THEN PlumbingCosts.copper
    ELSE IF Contains(pipe_material, <<"p", "e", "x">>) THEN PlumbingCosts.pex
    ELSE IF Contains(pipe_material, <<"c", "p", "v", "c">>) THEN PlumbingCosts.cpvc
    ELSE IF Contains(pipe_material, <<"p", "v", "c">>) THEN PlumbingCosts.pvc
    ELSE PlumbingCosts.general

HotPipeCost(pipe_material) ==
    IF Contains(pipe_material, <<"c", "o", "p", "p", "e", "r">>) THEN PlumbingCosts.copper
    ELSE IF Contains(pipe_material, <<"p", "e", "x">>) THEN PlumbingCosts.pex
    ELSE IF Contains(pipe_material, <<"c", "p", "v", "c">>) THEN PlumbingCosts.cpvc
    ELSE PlumbingCosts.general

SanitaryPipeCost(pipe_material) ==
    IF Contains(pipe_material, <<"c", "a", "s", "t">>) /\ Contains(pipe_material, <<"i", "r", "o", "n">>)
    THEN PlumbingCosts.cast_iron
    ELSE IF Contains(pipe_material, <<"p", "v", "c">>) THEN PlumbingCosts.pvc
    ELSE IF Contains(pipe_material, <<"a", "b", "s">>) THEN PlumbingCosts.abs
    ELSE PlumbingCosts.general

StormPipeCost(pipe_material) ==
    IF Contains(pipe_material, <<"c", "a", "s", "t">>) /\ Contains(pipe_material, <<"i", "r", "o", "n">>)
    THEN PlumbingCosts.cast_iron
    ELSE IF Contains(pipe_material, <<"p", "v", "c">>) THEN PlumbingCosts.pvc
    ELSE PlumbingCosts.general

\* one piping system of a section: pipe_cost times the assumed feet, plus the
\* recirculation feet when the system has a truthy "recirculation"
PipeTerm(section, key, PipeCost(_), feet, recircFeet) ==
    LET system == Get(section, key, Dict(EmptyMap))
    IN  IF ~Truthy(system) THEN Return(0)
        ELSE ItemGuard(system,
               Then(GetLower(system, "pipe_material"), LAMBDA pipe_material :
                 Return(PipeCost(pipe_material) * 10
                        * (feet + IF Truthy(Get(system, "recirculation", Null))
                                  THEN recircFeet ELSE 0))))

PlumbWaterSupplyTerms(results) ==
    LET water_supply == Get(results, "water_supply", Dict(EmptyMap))
    IN  IF ~Truthy(water_supply) THEN << >>
        ELSE IF ~IsDict(water_supply) THEN <<Raise(NoAttribute(water_supply, "get"))>>
        ELSE <<PipeTerm(water_supply, "domestic_cold", ColdPipeCost, 100, 0),
               PipeTerm(water_supply, "domestic_hot", HotPipeCost, 75, 50)>>

PlumbGreaseTerm(drainage) ==
    LET grease == Get(drainage, "grease", Dict(EmptyMap))
    IN  IF ~Truthy(grease) THEN Return(0)
        ELSE ItemGuard(grease,
               IF Truthy(Get(grease, "interceptor_type", Null))
               THEN Flat(200000) ELSE Return(0))

PlumbDrainageTerms(results) ==
    LET drainage == Get(results, "drainage", Dict(EmptyMap))
    IN  IF ~Truthy(drainage) THEN << >>
        ELSE IF ~IsDict(drainage) THEN <<Raise(NoAttribute(drainage, "get"))>>
        ELSE <<PipeTerm(drainage, "sanitary", SanitaryPipeCost, 100, 0),
               PipeTerm(drainage, "storm", StormPipeCost, 100, 0),
               PlumbGreaseTerm(drainage)>>

FixtureCost(fixture_type) ==
    IF Contains(fixture_type, <<"t", "o", "i", "l", "e", "t">>) \/ Contains(fixture_type, <<"w", "a", "t", "e", "r", " ", "c", "l", "o", "s", "e", "t">>)
    THEN PlumbingCosts.toilet
    ELSE IF Contains(fixture_type, <<"u", "r", "i", "n", "a", "l">>) THEN PlumbingCosts.urinal
    ELSE IF Contains(fixture_type, <<"s", "i", "n", "k">>) THEN PlumbingCosts.sink
    ELSE IF Contains(fixture_type, <<"l", "a", "v", "a", "t", "o", "r", "y">>) THEN PlumbingCosts.lavatory
    ELSE IF Contains(fixture_type, <<"s", "h", "o", "w", "e", "r">>) THEN PlumbingCosts.shower
    ELSE IF Contains(fixture_type, <<"t", "u", "b">>) \/ Contains(fixture_type, <<"b", "a", "t", "h", "t", "u", "b">>)
    THEN PlumbingCosts.tub
    ELSE IF Contains(fixture_type, <<"d", "r", "i", "n", "k", "i", "n", "g">>) /\ Contains(fixture_type, <<"f", "o", "u", "n", "t", "a", "i", "n">>)
    THEN PlumbingCosts.drinking_fountain
    ELSE PlumbingCosts.general

PlumbFixtureTerm(fixture) ==
    ItemGuard(fixture,
      Then(GetLower(fixture, "type"), LAMBDA fixture_type :
        Times(FixtureCost(fixture_type), QuantityOrOne(fixture))))

PlumbWaterHeatingTerm(results) ==
    LET water_heating == Get(results, "water_heating", Dict(EmptyMap))
    IN  IF ~Truthy(water_heating) THEN Return(0)
        ELSE ItemGuard(water_heating,
               Then(GetLower(water_heating, "type"), LAMBDA heater_type :
                 Then(GetLower(water_heating, "fuel"), LAMBDA fuel :
                   Times(IF Contains(heater_type, <<"t", "a", "n", "k", "l", "e", "s", "s">>)
                         THEN PlumbingCosts.water_heater_tankless
                         ELSE IF Contains(fuel, <<"g", "a", "s">>) THEN PlumbingCosts.water_heater_gas
                         ELSE IF Contains(fuel, <<"e", "l", "e", "c", "t", "r", "i", "c">>)
                         THEN PlumbingCosts.water_heater_electric
                         ELSE PlumbingCosts.general,
                         QuantityOrOne(water_heating)))))

PlumbSpecialTerm(system) ==
    ItemGuard(system,
      Then(GetLower(system, "type"), LAMBDA system_type :
        IF Contains(system_type, <<"g", "a", "s">>) /\ ~Contains(system_type, <<"m", "e", "d", "i", "c", "a", "l">>)
        THEN Flat(PlumbingCosts.gas_piping * 100)
        ELSE IF Contains(system_type, <<"m", "e", "d", "i", "c", "a", "l">>) /\ Contains(system_type, <<"g", "a", "s">>)
        THEN Flat(PlumbingCosts.med_gas * 50)
        ELSE Flat(PlumbingCosts.general)))

PlumbingMaterial(results) ==
    SumTerms(PlumbWaterSupplyTerms(results)
             \o PlumbDrainageTerms(results)
             \o LoopTerms(GetIter(results, "fixtures"), PlumbFixtureTerm)
             \o <<PlumbWaterHeatingTerm(results)>>
             \o LoopTerms(GetIter(results, "special_systems"), PlumbSpecialTerm))

\* labor_cost = material_cost * 1.1
PlumbingCostBlock(results) ==
    Then(PlumbingMaterial(results), LAMBDA material_cost :
      Return("estimated_material_cost" :> CostOrNone(material_cost, 1, 1)
             @@ "estimated_labor_cost" :> CostOrNone(material_cost, 11, 10)
             @@ "currency" :> Txt(<<"U", "S", "D">>)))

----------------------------------------------------------------------------
(* HVACSystemsPlugin.format_results: the cost calculation *)

\* the costs table, in cents
HVACCosts ==
    [boiler_small |-> 500000, boiler_medium |-> 1500000, boiler_large |-> 3000000,
     furnace |-> 300000, heat_pump |-> 700000,
     chiller_small |-> 2000000, chiller_medium |-> 5000000, chiller_large |-> 10000000,
     dx_system |-> 1000000, cooling_tower_small |-> 1500000,
     cooling_tower_large |-> 4000000,
     ahu_small |-> 800000, ahu_medium |-> 2000000, ahu_large |-> 4000000,
     rtu_small |-> 1500000, rtu_medium |-> 3000000, rtu_large |-> 6000000,
     exhaust_fan_small |-> 100000, exhaust_fan_large |-> 300000,
     energy_recovery |-> 1000000, ductwork |-> 1000,
     basic_controls |-> 500000, bms |-> 2000000, general |-> 500000]

\* float of the first number of a lowered capacity / cfm string, 0 without one
\* (in hundredths)
CapacityValue(capacity_str) ==
    IF FirstNumber(capacity_str).found THEN FirstNumber(capacity_str).value ELSE 0

\* small below the first threshold, medium below the second, else large
Tier(value, text, low, high, small, medium, large) ==
    IF value < 100 * low \/ Contains(text, <<"s", "m", "a", "l", "l">>) THEN small
    ELSE IF value < 100 * high \/ Contains(text, <<"m", "e", "d", "i", "u", "m">>) THEN medium
    ELSE large

HeatingCost(item_type, capacity_str) ==
    IF Contains(item_type, <<"b", "o", "i", "l", "e", "r">>)
    THEN Tier(CapacityValue(capacity_str), capacity_str, 500, 1500,
              HVACCosts.boiler_small, HVACCosts.boiler_medium, HVACCosts.boiler_large)
    ELSE IF Contains(item_type, <<"f", "u", "r", "n", "a", "c", "e">>) THEN HVACCosts.furnace
    ELSE IF Contains(item_type, <<"h", "e", "a", "t">>) /\ Contains(item_type, <<"p", "u", "m", "p">>)
    THEN HVACCosts.heat_pump
    ELSE HVACCosts.general

CoolingCost(item_type, capacity_str) ==
    IF Contains(item_type, <<"c", "h", "i", "l", "l", "e", "r">>)
    THEN Tier(CapacityValue(capacity_str), capacity_str, 100, 300,
              HVACCosts.chiller_small, HVACCosts.chiller_medium, HVACCosts.chiller_large)
    ELSE IF Contains(item_type, <<"d", "x">>) THEN HVACCosts.dx_system
    ELSE IF Contains(item_type, <<"c", "o", "o", "l", "i", "n", "g">>) /\ Contains(item_type, <<"t", "o", "w", "e", "r">>)
    THEN IF CapacityValue(capacity_str) < 100 * 300 \/ Contains(capacity_str, <<"s", "m", "a", "l", "l">>)
         THEN HVACCosts.cooling_tower_small ELSE HVACCosts.cooling_tower_large
    ELSE HVACCosts.general

AirHandlingCost(item_type, cfm_str) ==
    IF Contains(item_type, <<"a", "h", "u">>)
       \/ (Contains(item_type, <<"a", "i", "r">>) /\ Contains(item_type, <<"h", "a", "n", "d", "l", "e", "r">>))
    THEN Tier(CapacityValue(cfm_str), cfm_str, 5000, 15000,
              HVACCosts.ahu_small, HVACCosts.ahu_medium, HVACCosts.ahu_large)
    ELSE IF Contains(item_type, <<"r", "t", "u">>)
            \/ (Contains(item_type, <<"r", "o", "o", "f">>) /\ Contains(item_type, <<"t", "o", "p">>))
    THEN Tier(CapacityValue(cfm_str), cfm_str, 5000, 15000,
              HVACCosts.rtu_small, HVACCosts.rtu_medium, HVACCosts.rtu_large)
    ELSE HVACCosts.general

VentilationCost(item_type, cfm_str) ==
    IF Contains(item_type, <<"e", "x", "h", "a", "u", "s", "t">>) \/ Contains(item_type, <<"f", "a", "n">>)
    THEN IF CapacityValue(cfm_str) < 100 * 2000 \/ Contains(cfm_str, <<"s", "m", "a", "l", "l">>)
         THEN HVACCosts.exhaust_fan_small ELSE HVACCosts.exhaust_fan_large
    ELSE IF Contains(item_type, <<"e", "n", "e", "r", "g", "y">>)
            /\ (Contains(item_type, <<"r", "e", "c", "o", "v", "e", "r", "y">>) \/ Contains(item_type, <<"e", "r", "v">>))
    THEN HVACCosts.energy_recovery
    ELSE HVACCosts.general

\* one item of heating_systems, cooling_systems or air_handling
EquipmentTerm(item, capacityKey, EquipmentCost(_, _)) ==
    ItemGuard(item,
      Then(GetLower(item, "type"), LAMBDA item_type :
        Then(GetLower(item, capacityKey), LAMBDA capacity_str :
          Times(EquipmentCost(item_type, capacity_str), QuantityOrOne(item)))))

HVACHeatingTerm(item) == EquipmentTerm(item, "capacity", HeatingCost)
HVACCoolingTerm(item) == EquipmentTerm(item, "capacity", CoolingCost)
HVACAirHandlingTerm(item) == EquipmentTerm(item, "cfm", AirHandlingCost)

\* ventilation items are not multiplied by a quantity
HVACVentilationTerm(item) ==
    ItemGuard(item,
      Then(GetLower(item, "type"), LAMBDA item_type :
        Then(GetLower(item, "cfm"), LAMBDA cfm_str :
          Flat(VentilationCost(item_type, cfm_str)))))

\* costs["ductwork"] * 10000: a 10,000 SF building is assumed
HVACDuctworkTerm(results) ==
    IF Truthy(Get(results, "ductwork", Dict(EmptyMap)))
    THEN Flat(HVACCosts.ductwork * 10000) ELSE Return(0)

HVACControlsTerm(results) ==
    LET controls == Get(results, "controls", Dict(EmptyMap))
    IN  IF ~Truthy(controls) THEN Return(0)
        ELSE ItemGuard(controls,
               Then(GetLower(controls, "type"), LAMBDA control_type :
                 Flat(IF Contains(control_type, <<"b", "m", "s">>)
                         \/ (Contains(control_type, <<"b", "u", "i", "l", "d", "i", "n", "g">>)
                             /\ Contains(control_type, <<"m", "a", "n", "a", "g", "e", "m", "e", "n", "t">>))
                      THEN HVACCosts.bms ELSE HVACCosts.basic_controls)))

HVACMaterial(results) ==
    SumTerms(LoopTerms(GetIter(results, "heating_systems"), HVACHeatingTerm)
             \o LoopTerms(GetIter(results, "cooling_systems"), HVACCoolingTerm)
             \o LoopTerms(GetIter(results, "air_handling"), HVACAirHandlingTerm)
             \o LoopTerms(GetIter(results, "ventilation"), HVACVentilationTerm)
             \o <<HVACDuctworkTerm(results), HVACControlsTerm(results)>>)

\* labor_cost = material_cost * 0.9
HVACCostBlock(results) ==
    Then(HVACMaterial(results), LAMBDA material_cost :
      Return("estimated_material_cost" :> CostOrNone(material_cost, 1, 1)
             @@ "estimated_labor_cost" :> CostOrNone(material_cost, 9, 10)
             @@ "currency" :> Txt(<<"U", "S", "D">>)))

----------------------------------------------------------------------------
(* ConcreteStructuresPlugin.format_results: the cost calculation *)

\* unit_costs, in cents: concrete per cubic yard by strength, reinforcement
\* per ton, formwork per square foot by element type
ConcreteUnitCosts ==
    [concrete |-> [psi3000 |-> 15000, psi4000 |-> 17500, psi5000 |-> 20000,
                   psi6000 |-> 22500, general |-> 17500],
     reinforcement |-> 120000,
     formwork |-> [foundation |-> 1500, walls |-> 2000, columns |-> 2500,
                   elevated_slab |-> 1800, beams |-> 2200, general |-> 2000]]

ElementKeys == <<"foundations", "columns", "beams", "slabs", "walls">>

\* all_elements.extend(results.get(key, [])) for the five keys
RECURSIVE AllElements(_, _)
AllElements(results, i) ==
    IF i > Len(ElementKeys) THEN Return(<< >>)
    ELSE Then(GetIter(results, ElementKeys[i]), LAMBDA these :
           Then(AllElements(results, i + 1), LAMBDA those : Return(these \o those)))

\* item.get(key, "").upper()
GetUpper(item, key) ==
    LET x == Get(item, key, Txt(<< >>))
    IN  IF x.k = "txt" THEN Return(UpperSeq(x.v)) ELSE Raise(NoAttribute(x, "upper"))

\* quantity in cubic yards (hundredths): cubic feet are divided by 27
CubicYards(quantity, unit) ==
    IF quantity.k # "num" THEN Raise(BadOperand("/=", quantity))
    ELSE Return(IF unit = <<"C", "F">> THEN quantity.v \div 27 ELSE quantity.v)

\* one element's share of total_volume
VolumeTerm(element) ==
    ItemGuard(element,
      IF ~Truthy(Get(element, "quantity", Null)) THEN Return(0)
      ELSE Then(GetUpper(element, "unit"), LAMBDA unit :
             IF unit \in {<<"C", "Y">>, <<"C", "F">>}
             THEN CubicYards(Get(element, "quantity", Q(0)), unit)
             ELSE Return(0)))

\* results.get("quantity_summary", {}), which must be a dict to call .get on
QuantitySummary(results) ==
    LET summary == Get(results, "quantity_summary", Dict(EmptyMap))
    IN  IF IsDict(summary) THEN Return(summary) ELSE Raise(NoAttribute(summary, "get"))

\* total_volume: the elements' volumes, else the summary's total
TotalVolume(results) ==
    Then(AllElements(results, 1), LAMBDA all_elements :
      Then(SumTerms([i \in 1..Len(all_elements) |-> VolumeTerm(all_elements[i])]),
           LAMBDA elements_volume :
        IF elements_volume # 0 THEN Return(elements_volume)
        ELSE Then(QuantitySummary(results), LAMBDA summary :
               IF ~Truthy(Get(summary, "total_concrete_volume", Null)) THEN Return(0)
               ELSE Then(GetUpper(summary, "total_concrete_unit"), LAMBDA unit :
                      CubicYards(Get(summary, "total_concrete_volume", Null), unit)))))

\* re.search(r'(\d+)\s*(?:psi|PSI)', strength): the leftmost run of digits that
\* is followed, after optional whitespace, by psi or PSI
RECURSIVE SkipSpaces(_, _)
SkipSpaces(s, i) == IF i <= Len(s) /\ IsSpace(s[i]) THEN SkipSpaces(s, i + 1) ELSE i

PsiAt(s, i) ==
    LET j == SkipSpaces(s, RunEnd(s, i) + 1)
    IN  j + 2 <= Len(s) /\ SubSeq(s, j, j + 2) \in {<<"p", "s", "i">>, <<"P", "S", "I">>}

PsiSearch(s) ==
    LET starts == {i \in 1..Len(s) : IsDigit(s[i]) /\ PsiAt(s, i)}
        i == CHOOSE x \in starts : \A y \in starts : x <= y
    IN  IF starts = {} THEN [found |-> FALSE, psi |-> 0]
        ELSE [found |-> TRUE, psi |-> DigitsValue(SubSeq(s, i, RunEnd(s, i)))]

Abs(n) == IF n < 0 THEN -n ELSE n

\* the first standard strength within 500 psi, else the strength so far
ClosestStrength(psi, soFar) ==
    IF Abs(psi - 3000) < 500 THEN "psi3000"
    ELSE IF Abs(psi - 4000) < 500 THEN "psi4000"
    ELSE IF Abs(psi - 5000) < 500 THEN "psi5000"
    ELSE IF Abs(psi - 6000) < 500 THEN "psi6000"
    ELSE soFar

\* avg_strength after the loop over the classes: a later class replaces an
\* earlier one
RECURSIVE AvgStrength(_, _)
AvgStrength(classes, soFar) ==
    IF classes = << >> THEN Return(soFar)
    ELSE LET concrete_class == Head(classes)
             strength == Get(concrete_class, "strength", Txt(<< >>))
         IN  IF ~IsDict(concrete_class) THEN Raise(NoAttribute(concrete_class, "get"))
             ELSE IF strength.k # "txt" THEN Raise(NotAString(strength))
             ELSE AvgStrength(Tail(classes),
                              IF PsiSearch(strength.v).found
                              THEN ClosestStrength(PsiSearch(strength.v).psi, soFar)
                              ELSE soFar)

\* concrete_cost in mills, for a total_volume > 0
ConcreteCost(results, total_volume) ==
    LET specs == Get(results, "concrete_specifications", Dict(EmptyMap))
        classes == Get(specs, "classes", Null)
        avg_strength ==
            IF ~IsDict(specs) THEN Raise(NoAttribute(specs, "get"))
            ELSE IF ~Truthy(classes) THEN Return("general")
            ELSE Then(IterOf(classes), LAMBDA cs : AvgStrength(cs, "general"))
    IN  IF total_volume <= 0 THEN Return(0)
        ELSE Then(avg_strength, LAMBDA s :
               Times(ConcreteUnitCosts.concrete[s], Num(total_volume)))

\* reinforcement_cost in mills: the summary's weight (pounds are divided by
\* 2000), else 125 lb per cubic yard
ReinforcementCost(results, total_volume) ==
    Then(QuantitySummary(results), LAMBDA summary :
      LET rebar_weight == Get(summary, "total_reinforcement_weight", Q(0))
      IN  IF rebar_weight.k # "num" THEN Raise(BadOperand(">", rebar_weight))
          ELSE IF rebar_weight.v > 0
          THEN Then(GetLower(summary, "total_reinforcement_unit"), LAMBDA unit :
                 IF unit = <<"l", "b", "s">>
                 THEN Return(rebar_weight.v * (ConcreteUnitCosts.reinforcement \div 20000))
                 ELSE Times(ConcreteUnitCosts.reinforcement, rebar_weight))
          ELSE Return(total_volume * 125 * (ConcreteUnitCosts.reinforcement \div 20000)))

\* re.search(r'(\d+(\.\d+)?)\s*[xX]\s*(\d+(\.\d+)?)', s): width and depth
BeamAt(s, i) ==
    LET j == SkipSpaces(s, NumberAt(s, i).stop + 1)
        l == SkipSpaces(s, j + 1)
    IN  j <= Len(s) /\ s[j] \in {"x", "X"} /\ l <= Len(s) /\ IsDigit(s[l])

BeamSearch(s) ==
    LET starts == {i \in 1..Len(s) : IsDigit(s[i]) /\ BeamAt(s, i)}
        i == CHOOSE x \in starts : \A y \in starts : x <= y
        second == SkipSpaces(s, SkipSpaces(s, NumberAt(s, i).stop + 1) + 1)
    IN  IF starts = {} THEN [found |-> FALSE, width |-> 0, depth |-> 0]
        ELSE [found |-> TRUE, width |-> NumberAt(s, i).value,
              depth |-> NumberAt(s, second).value]

\* the formwork area of one element, in hundredths of a square foot
FormworkArea(element_type, element) ==
    CASE element_type = "foundations" ->
           Then(Dimension(element, "dimensions"), LAMBDA size :
             Then(Dimension(element, "depth"), LAMBDA depth :
               Return((size * 4 * depth) \div 100)))
      [] element_type = "walls" ->
           Then(Dimension(element, "length"), LAMBDA length :
             Then(Dimension(element, "height"), LAMBDA height :
               Return((length * height * 2) \div 100)))
      [] element_type = "columns" ->
           Then(Dimension(element, "dimensions"), LAMBDA size :
             Then(Dimension(element, "height"), LAMBDA height :
               Return((size * 4 * height) \div 100)))
      [] element_type = "beams" ->
           LET dimensions == Get(element, "dimensions", Txt(<<"0", "x", "0">>))
           IN  IF dimensions.k # "txt" THEN Raise(NotAString(dimensions))
               ELSE Then(Dimension(element, "span"), LAMBDA length :
                      Return(((BeamSearch(dimensions.v).width
                               + 2 * BeamSearch(dimensions.v).depth) * length) \div 100))
      [] element_type = "slabs" ->
           Then(GetLower(element, "type"), LAMBDA slab_type :
             IF slab_type # <<"o", "n", " ", "g", "r", "a", "d", "e">> THEN Dimension(element, "area") ELSE Return(0))

FormType(element_type) ==
    CASE element_type = "foundations" -> "foundation"
      [] element_type = "walls" -> "walls"
      [] element_type = "columns" -> "columns"
      [] element_type = "beams" -> "beams"
      [] element_type = "slabs" -> "elevated_slab"

\* one element's share of formwork_cost, in mills; elements without
\* "dimensions" are skipped
FormworkTerm(element_type, element) ==
    ItemGuard(element,
      IF ~Truthy(Get(element, "dimensions", Null)) THEN Return(0)
      ELSE Then(FormworkArea(element_type, element), LAMBDA area :
             IF area > 0
             THEN Times(ConcreteUnitCosts.formwork[FormType(element_type)], Num(area))
             ELSE Return(0)))

FormworkTerms(results, element_type) ==
    IF HasKey(results, element_type)
    THEN LET iter == IterOf(results.v[element_type])
         IN  IF iter.raised THEN <<iter>>
             ELSE [i \in 1..Len(iter.value) |-> FormworkTerm(element_type, iter.value[i])]
    ELSE << >>

\* formwork_cost in mills: per element, else 50 SF per cubic yard at the
\* general rate
FormworkCost(results, total_volume) ==
    Then(SumTerms(FormworkTerms(results, "foundations")
                  \o FormworkTerms(results, "columns")
                  \o FormworkTerms(results, "beams")
                  \o FormworkTerms(results, "slabs")
                  \o FormworkTerms(results, "walls")), LAMBDA detailed :
      IF detailed = 0
      THEN Return(total_volume * 50 * (ConcreteUnitCosts.formwork.general \div 10))
      ELSE Return(detailed))

\* labor_cost = (concrete_cost + reinforcement_cost + formwork_cost) * 0.4
ConcreteCostBlock(results) ==
    Then(TotalVolume(results), LAMBDA total_volume :
      Then(ConcreteCost(results, total_volume), LAMBDA concrete_cost :
        Then(ReinforcementCost(results, total_volume), LAMBDA reinforcement_cost :
          Then(FormworkCost(results, total_volume), LAMBDA formwork_cost :
            Return("estimated_concrete_cost" :> CostOrNone(concrete_cost, 1, 1)
                   @@ "estimated_reinforcement_cost" :> CostOrNone(reinforcement_cost, 1, 1)
                   @@ "estimated_formwork_cost" :> CostOrNone(formwork_cost, 1, 1)
                   @@ "estimated_labor_cost" :>
                        CostOrNone(concrete_cost + reinforcement_cost + formwork_cost, 4, 10)
                   @@ "currency" :> Txt(<<"U", "S", "D">>))))))

----------------------------------------------------------------------------
(* format_results *)

\* the key of the cost block whose truthy value means costs were provided
ProvidedKey(cls) ==
    CASE cls = "DoorsWindowsPlugin" -> "estimated_doors_cost"
      [] cls = "ConcreteStructuresPlugin" -> "estimated_concrete_cost"
      [] OTHER -> "estimated_material_cost"

\* the entries the calculation writes to results["cost_estimates"]
CostBlock(cls, results) ==
    CASE cls = "WallsPartitionsPlugin" -> WallsCostBlock(results)
      [] cls = "DoorsWindowsPlugin" -> DoorsWindowsCostBlock(results)
      [] cls = "ElectricalSystemsPlugin" -> ElectricalCostBlock(results)
      [] cls = "PlumbingSystemsPlugin" -> PlumbingCostBlock(results)
      [] cls = "HVACSystemsPlugin" -> HVACCostBlock(results)
      [] cls = "ConcreteStructuresPlugin" -> ConcreteCostBlock(results)

\* the guard of format_results without the test for the key error
ReturnsEarlyIgnoresError(cls, results) ==
    cls = "WallsPartitionsPlugin" /\ ~Truthy(Get(results, "walls", Null))

\* if "error" in results [or not results.get("walls")]: return results
ReturnsEarly(cls, results) ==
    \/ HasKey(results, "error")
    \/ cls = "WallsPartitionsPlugin" /\ ~Truthy(Get(results, "walls", Null))

\* "cost_estimates" not in results or not results["cost_estimates"].get(key)
CostsMissing(cls, results) ==
    \/ ~HasKey(results, "cost_estimates")
    \/ ~Truthy(Get(results.v["cost_estimates"], ProvidedKey(cls), Null))

\* the computed block returned with the keys cost_estimates and notes only
WriteBackSummary(results, entries) ==
    Dict([key \in (DOMAIN results.v \cap {"notes"}) \cup {"cost_estimates"} |->
            IF key = "cost_estimates" THEN Dict(entries) ELSE results.v[key]])

\* results["cost_estimates"] = {} when absent, then one assignment per entry
WriteBack(results, entries) ==
    LET block == Get(results, "cost_estimates", Dict(EmptyMap))
    IN  Put(results, "cost_estimates",
            Dict([key \in DOMAIN block.v \cup DOMAIN entries |->
                    IF key \in DOMAIN entries THEN entries[key] ELSE block.v[key]]))

\* word in results, for results a string (substring) or a list (element)
InNonDict(results, word) ==
    IF results.k = "txt" THEN Contains(results.v, word)
    ELSE \E i \in 1..Len(results.v) : results.v[i] = Txt(word)

\* format_results handed a JSON string or a JSON list
FormatNonDict(cls, results) ==
    IF InNonDict(results, <<"e", "r", "r", "o", "r">>) THEN Return(results)
    ELSE IF cls = "WallsPartitionsPlugin" THEN Raise(NoAttribute(results, "get"))
    ELSE IF InNonDict(results, <<"c", "o", "s", "t", "_", "e", "s", "t", "i", "m", "a", "t", "e", "s">>)
    THEN Raise(Exc("TypeError",
                   IF results.k = "txt" THEN "string indices must be integers"
                   ELSE "list indices must be integers or slices, not str"))
    ELSE Raise(NoAttribute(results, "get"))

\* format_results costing the line items on every application and adding each
\* cost to the one the block holds
FormatDomainAccumulates(cls, results) ==
    IF results.k \in {"list", "txt"} THEN FormatNonDict(cls, results)
    ELSE IF ~IsDict(results) THEN Raise(NotContainer(results))
    ELSE IF ReturnsEarly(cls, results) THEN Return(results)
    ELSE IF HasKey(results, "cost_estimates") /\ ~IsDict(results.v["cost_estimates"])
    THEN Raise(NoAttribute(results.v["cost_estimates"], "get"))
    ELSE Then(CostBlock(cls, results), LAMBDA entries :
           LET held == Get(results, "cost_estimates", Dict(EmptyMap)).v
           IN  Return(WriteBack(results,
                 [key \in DOMAIN entries |->
                    IF /\ entries[key].k = "num"
                       /\ key \in DOMAIN held
                       /\ held[key].k = "num"
                    THEN Num(held[key].v + entries[key].v)
                    ELSE entries[key]])))

\* format_results of the six domain plugins
FormatDomain(cls, results) ==
    IF results.k \in {"list", "txt"} THEN FormatNonDict(cls, results)
    ELSE IF ~IsDict(results) THEN Raise(NotContainer(results))
    ELSE IF ReturnsEarly(cls, results) THEN Return(results)
    ELSE IF HasKey(results, "cost_estimates") /\ ~IsDict(results.v["cost_estimates"])
    THEN Raise(NoAttribute(results.v["cost_estimates"], "get"))
    ELSE IF ~CostsMissing(cls, results) THEN Return(results)
    ELSE Then(CostBlock(cls, results), LAMBDA entries :
           Return(WriteBack(results, entries)))

\* AnalysisPlugin.format_results, overridden by the domain plugins
format_results(cls, results) ==
    IF cls \in DomainClasses THEN FormatDomain(cls, results) ELSE Return(results)

----------------------------------------------------------------------------
(* analyze *)

\* CustomPlugin.analyze: an AnalysisPlugin subclass that asks the LLM and
\* parses the answer without catching anything
AnalyzeCustom(text, context, llm) ==
    IF llm.kind = "raise" THEN Raise(Exc("RuntimeError", llm.msg))
    ELSE IF json_loads(llm.content).ok THEN Return(json_loads(llm.content).value)
    ELSE Raise(Exc("JSONDecodeError", JSONDecodeErrorMsg))

analyze(cls, text, context, llm) ==
    IF cls \in DomainClasses THEN AnalyzeDomain(text, context, llm)
    ELSE AnalyzeCustom(text, context, llm)

----------------------------------------------------------------------------
(* PluginManager *)

NotFoundMsg(plugin_id) == "Plugin with ID '" \o plugin_id \o "' not found"
NotEnabledMsg(plugin_id) == "Plugin with ID '" \o plugin_id \o "' is not enabled"
InvalidInputMsg == "Invalid input text for analysis"
EmptyIdMsg == "Plugin ID cannot be empty"

\* an outcome together with the plugin methods invoked on the way, in order
Traced(outcome, trace) ==
    [raised |-> outcome.raised, exc |-> outcome.exc, value |-> outcome.value,
     trace |-> trace]

\* run_analysis validating the text before it looks the plugin up
run_analysisValidatesFirst(plgs, enabled, text, plugin_id, context, llm) ==
    IF ~validate_input(text)
    THEN Traced(Raise(Exc("ValueError", InvalidInputMsg)), <<"validate_input">>)
    ELSE IF plugin_id \notin DOMAIN plgs
    THEN Traced(Raise(Exc("ValueError", NotFoundMsg(plugin_id))), << >>)
    ELSE IF plugin_id \notin enabled
    THEN Traced(Raise(Exc("ValueError", NotEnabledMsg(plugin_id))), << >>)
    ELSE LET results == analyze(plgs[plugin_id], text, context, llm)
         IN  IF results.raised
             THEN Traced(results, <<"validate_input", "analyze">>)
             ELSE Traced(format_results(plgs[plugin_id], results.value),
                         <<"validate_input", "analyze", "format_results">>)

\* PluginManager.run_analysis
run_analysis(plgs, enabled, text, plugin_id, context, llm) ==
    IF plugin_id \notin DOMAIN plgs
    THEN Traced(Raise(Exc("ValueError", NotFoundMsg(plugin_id))), << >>)
    ELSE IF plugin_id \notin enabled
    THEN Traced(Raise(Exc("ValueError", NotEnabledMsg(plugin_id))), << >>)
    ELSE IF ~validate_input(text)
    THEN Traced(Raise(Exc("ValueError", InvalidInputMsg)), <<"validate_input">>)
    ELSE LET results == analyze(plgs[plugin_id], text, context, llm)
         IN  IF results.raised
             THEN Traced(results, <<"validate_input", "analyze">>)
             ELSE Traced(format_results(plgs[plugin_id], results.value),
                         <<"validate_input", "analyze", "format_results">>)

\* the except clause storing repr(e) in place of str(e)
ErrorEntryRepr(e) == Dict("error" :> Str(e.type \o "('" \o e.msg \o "')"))

\* the except clause of run_all_enabled_plugins: results[plugin_id] = ...
ErrorEntry(e) == Dict("error" :> Str(StrOf(e)))

\* the except clause starting the result map afresh
StoreEntryResets(results, plugin_id, outcome) ==
    IF outcome.raised THEN plugin_id :> ErrorEntry(outcome.exc)
    ELSE (plugin_id :> outcome.value) @@ results

\* one iteration of the loop of run_all_enabled_plugins: results afterwards
StoreEntry(results, plugin_id, outcome) ==
    (plugin_id :> (IF outcome.raised THEN ErrorEntry(outcome.exc) ELSE outcome.value))
    @@ results

\* the classes a manager is given instances of, the ids and inputs it is
\* called with
ManagerClasses == {"ElectricalSystemsPlugin", "WallsPartitionsPlugin",
                   "CustomPlugin", "NoIdPlugin"}
CallIds == {ClassId(cls) : cls \in ManagerClasses} \cup {"nonexistent"}
Contexts == {Null, Dict("region" :> Txt(<<"U", "S">>))}

\* what the LLM may do in a manager call
ManagerResponses ==
    { <<"{", "power", "}">>, <<"{", "walls", "}">>, <<"42">>, <<"prose">>,
      <<"FENCE_OPEN", "prose", "FENCE_CLOSE">> }
LLMBehaviours == {LLMRaise("timeout")} \cup {LLMContent(c) : c \in ManagerResponses}
NoLLM == LLMContent(<< >>)

\* no call of analyze made yet, nothing returned by it
NoCall == [text |-> << >>, context |-> Null, llm |-> NoLLM]
NotParsed == [done |-> FALSE, out |-> Return(Null)]

\* no call of format_results made yet, nothing returned by it
NoFormat == [cls |-> "", results |-> Null]
NotFormatted == [done |-> FALSE, out |-> Return(Null)]

\* no pair of executions of run_all_enabled_plugins under way
NoPair == [phase |-> "none", text |-> << >>, context |-> Null, victim |-> "",
           started |-> {}, llms |-> EmptyMap, todo |-> {},
           first |-> EmptyMap, second |-> EmptyMap]

\* no task on the event loop
NoSched == [running |-> "none", at |-> << >>]

\* the subscription tables before any row is written
NoDb == [subscriptions |-> << >>, licenses |-> << >>, now |-> 0,
         last |-> [op |-> "none"]]

NoRun == [text |-> << >>, context |-> Null, todo |-> {}, started |-> {},
          results |-> EmptyMap, failed |-> EmptyMap, calls |-> EmptyMap,
          llms |-> EmptyMap]

Observed(tick, op, id, text, llm, out, extra) ==
    [tick |-> tick, op |-> op, id |-> id, text |-> text, llm |-> llm,
     context |-> extra.context, llms |-> extra.llms,
     raised |-> out.raised, exc |-> out.exc, value |-> out.value,
     trace |-> out.trace, started |-> extra.started, failed |-> extra.failed,
     calls |-> extra.calls]

Flip(tick) == 1 - tick

ManagerOnly == UNCHANGED <<PLUGINS, regLog, resp, parsed, fmtIn, fmtOut, pair, sched, db>>

\* register_plugin keeping the new instance as the only registered plugin
RegisterPluginReplacesAll(cls) ==
    /\ pc = "idle"
    /\ IF ClassId(cls) = ""
       THEN /\ ret' = Observed(Flip(ret.tick), "register_plugin", ClassId(cls), << >>, NoLLM,
                               Traced(Raise(Exc("ValueError", EmptyIdMsg)), << >>), NoRun)
            /\ UNCHANGED plugins
       ELSE /\ plugins' = (ClassId(cls) :> cls)
            /\ ret' = Observed(Flip(ret.tick), "register_plugin", ClassId(cls), << >>, NoLLM,
                               Traced(Return(Null), << >>), NoRun)
    /\ UNCHANGED <<enabled_plugins, pc, run>>
    /\ ManagerOnly

\* PluginManager.register_plugin(plugin_instance), for an instance of cls
RegisterPlugin(cls) ==
    /\ pc = "idle"
    /\ IF ClassId(cls) = ""
       THEN /\ ret' = Observed(Flip(ret.tick), "register_plugin", ClassId(cls), << >>, NoLLM,
                               Traced(Raise(Exc("ValueError", EmptyIdMsg)), << >>), NoRun)
            /\ UNCHANGED plugins
       ELSE /\ plugins' = (ClassId(cls) :> cls) @@ plugins
            /\ ret' = Observed(Flip(ret.tick), "register_plugin", ClassId(cls), << >>, NoLLM,
                               Traced(Return(Null), << >>), NoRun)
    /\ UNCHANGED <<enabled_plugins, pc, run>>
    /\ ManagerOnly

\* enable_plugin adding the id before it looks the plugin up
EnablePluginAddsFirst(plugin_id) ==
    /\ pc = "idle"
    /\ enabled_plugins' = enabled_plugins \cup {plugin_id}
    /\ ret' = Observed(Flip(ret.tick), "enable_plugin", plugin_id, << >>, NoLLM,
                       IF plugin_id \notin DOMAIN plugins
                       THEN Traced(Raise(Exc("ValueError", NotFoundMsg(plugin_id))), << >>)
                       ELSE Traced(Return(Null), << >>),
                       NoRun)
    /\ UNCHANGED <<plugins, pc, run>>
    /\ ManagerOnly

\* PluginManager.enable_plugin(plugin_id)
EnablePlugin(plugin_id) ==
    /\ pc = "idle"
    /\ IF plugin_id \notin DOMAIN plugins
       THEN /\ ret' = Observed(Flip(ret.tick), "enable_plugin", plugin_id, << >>, NoLLM,
                               Traced(Raise(Exc("ValueError", NotFoundMsg(plugin_id))), << >>),
                               NoRun)
            /\ UNCHANGED enabled_plugins
       ELSE /\ enabled_plugins' = enabled_plugins \cup {plugin_id}
            /\ ret' = Observed(Flip(ret.tick), "enable_plugin", plugin_id, << >>, NoLLM,
                               Traced(Return(Null), << >>), NoRun)
    /\ UNCHANGED <<plugins, pc, run>>
    /\ ManagerOnly

\* PluginManager.disable_plugin(plugin_id)
DisablePlugin(plugin_id) ==
    /\ pc = "idle"
    /\ enabled_plugins' = IF plugin_id \in enabled_plugins
                          THEN enabled_plugins \ {plugin_id} ELSE enabled_plugins
    /\ ret' = Observed(Flip(ret.tick), "disable_plugin", plugin_id, << >>, NoLLM,
                       Traced(Return(Null), << >>), NoRun)
    /\ UNCHANGED <<plugins, pc, run>>
    /\ ManagerOnly

\* a call of run_analysis that makes the calls of a failed attempt a second time
RunAnalysisRetries(text, plugin_id, context, llm) ==
    /\ pc = "idle"
    /\ \E out \in {run_analysis(plugins, enabled_plugins, text, plugin_id, context, llm)} :
          ret' = Observed(Flip(ret.tick), "run_analysis", plugin_id, text, llm,
                          IF out.raised THEN [out EXCEPT !.trace = @ \o @] ELSE out,
                          [NoRun EXCEPT !.context = context])
    /\ UNCHANGED <<plugins, enabled_plugins, pc, run>>
    /\ ManagerOnly

\* a call of PluginManager.run_analysis(text, plugin_id, context) by a client
RunAnalysis(text, plugin_id, context, llm) ==
    /\ pc = "idle"
    /\ \E out \in {run_analysis(plugins, enabled_plugins, text, plugin_id, context, llm)} :
          ret' = Observed(Flip(ret.tick), "run_analysis", plugin_id, text, llm, out,
                          [NoRun EXCEPT !.context = context])
    /\ UNCHANGED <<plugins, enabled_plugins, pc, run>>
    /\ ManagerOnly

\* run_all_enabled_plugins iterating over self.plugins
RunAllStartOverRegistered(text, context) ==
    /\ pc = "idle"
    /\ pc' = "loop"
    /\ run' = [text |-> text, context |-> context, todo |-> DOMAIN plugins,
               started |-> enabled_plugins, results |-> EmptyMap,
               failed |-> EmptyMap, calls |-> EmptyMap, llms |-> EmptyMap]
    /\ ret' = Observed(Flip(ret.tick), "run_all_enabled_plugins:running", "", text, NoLLM,
                       Traced(Return(Null), << >>), NoRun)
    /\ UNCHANGED <<plugins, enabled_plugins>>
    /\ ManagerOnly

\* run_all_enabled_plugins(text, context): results = {} and the iterator
\* over enabled_plugins
RunAllStart(text, context) ==
    /\ pc = "idle"
    /\ pc' = "loop"
    /\ run' = [text |-> text, context |-> context, todo |-> enabled_plugins,
               started |-> enabled_plugins, results |-> EmptyMap,
               failed |-> EmptyMap, calls |-> EmptyMap, llms |-> EmptyMap]
    /\ ret' = Observed(Flip(ret.tick), "run_all_enabled_plugins:running", "", text, NoLLM,
                       Traced(Return(Null), << >>), NoRun)
    /\ UNCHANGED <<plugins, enabled_plugins>>
    /\ ManagerOnly

\* the calls made for each plugin so far, with those run_analysis made now
Called(calls, plugin_id, trace) ==
    (plugin_id :> (IF plugin_id \in DOMAIN calls THEN calls[plugin_id] ELSE << >>) \o trace)
    @@ calls

\* one iteration that disables the plugin whose run_analysis raised
RunAllStepDisablesFailed(plugin_id, llm) ==
    /\ pc = "loop"
    /\ plugin_id \in run.todo
    /\ \E out \in {run_analysis(plugins, enabled_plugins, run.text, plugin_id,
                               run.context, llm)} :
           /\ run' = [run EXCEPT
                       !.todo = @ \ {plugin_id},
                       !.results = StoreEntry(@, plugin_id, out),
                       !.failed = IF out.raised THEN (plugin_id :> out.exc) @@ @ ELSE @,
                       !.calls = Called(@, plugin_id, out.trace),
                       !.llms = (plugin_id :> llm) @@ @]
           /\ enabled_plugins' = IF out.raised THEN enabled_plugins \ {plugin_id}
                                 ELSE enabled_plugins
    /\ UNCHANGED <<plugins, pc, ret>>
    /\ ManagerOnly

\* one iteration: the set hands out any id not yet visited; try run_analysis,
\* except Exception
RunAllStep(plugin_id, llm) ==
    /\ pc = "loop"
    /\ plugin_id \in run.todo
    /\ \E out \in {run_analysis(plugins, enabled_plugins, run.text, plugin_id,
                               run.context, llm)} :
           run' = [run EXCEPT
                     !.todo = @ \ {plugin_id},
                     !.results = StoreEntry(@, plugin_id, out),
                     !.failed = IF out.raised THEN (plugin_id :> out.exc) @@ @ ELSE @,
                     !.calls = Called(@, plugin_id, out.trace),
                     !.llms = (plugin_id :> llm) @@ @]
    /\ UNCHANGED <<plugins, enabled_plugins, pc, ret>>
    /\ ManagerOnly

\* return results
RunAllReturn ==
    /\ pc = "loop"
    /\ run.todo = {}
    /\ pc' = "idle"
    /\ ret' = Observed(Flip(ret.tick), "run_all_enabled_plugins", "", run.text, NoLLM,
                       Traced(Return(Dict(run.results)), << >>), run)
    /\ run' = NoRun
    /\ UNCHANGED <<plugins, enabled_plugins>>
    /\ ManagerOnly

\* PluginManager.__init__; the registry holds the classes registered on import
Init ==
    /\ plugins = EmptyMap
    /\ enabled_plugins = {}
    /\ pc = "idle"
    /\ run = NoRun
    /\ ret = Observed(0, "__init__", "", << >>, NoLLM, Traced(Return(Null), << >>), NoRun)
    /\ PLUGINS = [id \in {ClassId(cls) : cls \in DomainClasses} |->
                    CHOOSE cls \in DomainClasses : ClassId(cls) = id]
    /\ regLog = << >>
    /\ resp = NoCall
    /\ parsed = NotParsed
    /\ fmtIn = NoFormat
    /\ fmtOut = NotFormatted
    /\ pair = NoPair
    /\ sched = NoSched
    /\ db = NoDb

Next ==
    \/ \E cls \in ManagerClasses : RegisterPlugin(cls)
    \/ \E plugin_id \in CallIds : EnablePlugin(plugin_id)
    \/ \E plugin_id \in CallIds : DisablePlugin(plugin_id)
    \/ \E text \in Texts, plugin_id \in CallIds, context \in Contexts, llm \in LLMBehaviours :
          RunAnalysis(text, plugin_id, context, llm)
    \/ \E text \in Texts, context \in Contexts : RunAllStart(text, context)
    \/ \E plugin_id \in CallIds, llm \in LLMBehaviours : RunAllStep(plugin_id, llm)
    \/ RunAllReturn

Spec == Init /\ [][Next]_vars

----------------------------------------------------------------------------
(* Properties of the PluginManager *)

\* an entry or result that is a dict with the key error
HasError(x) == IsDict(x) /\ HasKey(x, "error")

Occurrences(trace, name) == Cardinality({i \in 1..Len(trace) : trace[i] = name})

Blank(text) == \A i \in 1..Len(text) : text[i] = " "

\* C1: run_all_enabled_plugins returns, without raising, a map whose key set
\* is exactly the enabled set, whichever of the enabled plugins fail
C1_KeySetEqualsEnabled ==
    ret.op = "run_all_enabled_plugins" =>
        /\ ~ret.raised
        /\ IsDict(ret.value)
        /\ DOMAIN ret.value.v = ret.started
        /\ ret.started = enabled_plugins

\* a run over three enabled plugins: analyze raised in one, format_results
\* raised in another, the third succeeded
C1_Witness ==
    /\ ret.op = "run_all_enabled_plugins"
    /\ \E a, b, c \in ret.started :
          /\ a \in DOMAIN ret.failed
          /\ ret.calls[a] = <<"validate_input", "analyze">>
          /\ b \in DOMAIN ret.failed
          /\ ret.calls[b] = <<"validate_input", "analyze", "format_results">>
          /\ c \notin DOMAIN ret.failed

\* C2: when run_analysis raises e for an enabled plugin inside
\* run_all_enabled_plugins, the entry under its id is exactly {"error": str(e)},
\* every enabled plugin is still visited, and run_all_enabled_plugins returns
C2_FailureRecorded ==
    /\ pc = "loop" =>
          \A id \in DOMAIN run.failed :
              run.results[id] = Dict("error" :> Str(run.failed[id].msg))
    /\ ret.op = "run_all_enabled_plugins" =>
          /\ ~ret.raised
          /\ DOMAIN ret.calls = ret.started
          /\ \A id \in DOMAIN ret.failed :
                ret.value.v[id] = Dict("error" :> Str(ret.failed[id].msg))

\* a finished run in which the plugin visited first failed in format_results
\* and another one produced a result afterwards
C2_Witness ==
    /\ ret.op = "run_all_enabled_plugins"
    /\ \E a \in DOMAIN ret.failed, b \in ret.started \ DOMAIN ret.failed :
          /\ ret.failed[a].type = "TypeError"
          /\ ~HasError(ret.value.v[b])

\* C4: run_analysis fails with not found, then not enabled, then invalid input,
\* without invoking analyze or format_results; otherwise it invokes analyze
\* once, then format_results once on what analyze returned, and its outcome is
\* the outcome of format_results
C4_RunAnalysisOrder ==
    ret.op = "run_analysis" =>
        IF ret.id \notin DOMAIN plugins
        THEN /\ ret.raised
             /\ ret.exc = Exc("ValueError", "Plugin with ID '" \o ret.id \o "' not found")
             /\ ret.trace = << >>
        ELSE IF ret.id \notin enabled_plugins
        THEN /\ ret.raised
             /\ ret.exc = Exc("ValueError", "Plugin with ID '" \o ret.id \o "' is not enabled")
             /\ ret.trace = << >>
        ELSE IF Blank(ret.text)
        THEN /\ ret.raised
             /\ ret.exc = Exc("ValueError", "Invalid input text for analysis")
             /\ Occurrences(ret.trace, "analyze") = 0
             /\ Occurrences(ret.trace, "format_results") = 0
        ELSE LET cls == plugins[ret.id]
                 analysed == analyze(cls, ret.text, ret.context, ret.llm)
                 formatted == format_results(cls, analysed.value)
             IN  /\ Occurrences(ret.trace, "analyze") = 1
                 /\ analysed.raised =>
                       /\ ret.raised /\ ret.exc = analysed.exc
                       /\ Occurrences(ret.trace, "format_results") = 0
                 /\ ~analysed.raised =>
                       /\ ret.trace = <<"validate_input", "analyze", "format_results">>
                       /\ ret.raised = formatted.raised
                       /\ ret.exc = formatted.exc
                       /\ ret.value = formatted.value

\* run_analysis returned the costed result of an enabled plugin
C4_Witness ==
    /\ ret.op = "run_analysis"
    /\ ~ret.raised
    /\ ret.trace = <<"validate_input", "analyze", "format_results">>
    /\ HasKey(ret.value, "cost_estimates")

\* the response of the LLM is JSON neither as a whole nor in a fenced block
Unparseable(content) ==
    /\ ~json_loads(content).ok
    /\ ~(FenceSearch(content).found /\ json_loads(FenceSearch(content).group1).ok)

\* an upstream failure in a call on a registered, enabled domain plugin with
\* valid text
UpstreamFailure(plugin_id, text, llm) ==
    /\ plugin_id \in DOMAIN plugins
    /\ plugins[plugin_id] \in DomainClasses
    /\ plugin_id \in enabled_plugins
    /\ ~Blank(text)
    /\ llm.kind = "raise" \/ Unparseable(llm.content)

\* C5 as stated: an upstream failure in a single run_analysis call on a domain
\* plugin reaches the caller as a raised error; inside
\* run_all_enabled_plugins it is an entry with the key error
C5_AsStated ==
    /\ (ret.op = "run_analysis" /\ UpstreamFailure(ret.id, ret.text, ret.llm)) => ret.raised
    /\ ret.op = "run_all_enabled_plugins" =>
          \A id \in ret.started :
              UpstreamFailure(id, ret.text, ret.llms[id]) => HasKey(ret.value.v[id], "error")

\* C5 amended: an upstream failure in a single run_analysis call on a domain
\* plugin is returned to the caller as a result with the key error, nothing is
\* raised; inside run_all_enabled_plugins run_analysis does not raise either
\* and the entry is a result with the key error
C5_FailureReturned ==
    /\ (ret.op = "run_analysis" /\ UpstreamFailure(ret.id, ret.text, ret.llm)) =>
          /\ ~ret.raised
          /\ IsDict(ret.value)
          /\ HasKey(ret.value, "error")
    /\ ret.op = "run_all_enabled_plugins" =>
          \A id \in ret.started :
              UpstreamFailure(id, ret.text, ret.llms[id]) =>
                  /\ id \notin DOMAIN ret.failed
                  /\ HasKey(ret.value.v[id], "error")

\* a single run_analysis call on a domain plugin during which the LLM raised
C5_Witness ==
    /\ ret.op = "run_analysis"
    /\ UpstreamFailure(ret.id, ret.text, ret.llm)
    /\ ret.llm.kind = "raise"
    /\ ~ret.raised

\* C6: enable_plugin of an unregistered id raises not found and leaves the
\* enabled set as it was; disable_plugin of an id that is unregistered or not
\* enabled raises nothing and leaves the plugin map and the enabled set as
\* they were
C6_UnknownIdNoEffect ==
    [][/\ (ret'.op = "enable_plugin" /\ ret'.tick # ret.tick
              /\ ret'.id \notin DOMAIN plugins) =>
             /\ ret'.raised
             /\ ret'.exc = Exc("ValueError", "Plugin with ID '" \o ret'.id \o "' not found")
             /\ enabled_plugins' = enabled_plugins
       /\ (ret'.op = "disable_plugin" /\ ret'.tick # ret.tick
              /\ (ret'.id \notin DOMAIN plugins \/ ret'.id \notin enabled_plugins)) =>
             /\ ~ret'.raised
             /\ plugins' = plugins
             /\ enabled_plugins' = enabled_plugins]_vars

\* enable_plugin of an unregistered id failed while other plugins were enabled
C6_Witness ==
    /\ ret.op = "enable_plugin"
    /\ ret.raised
    /\ ret.id \notin DOMAIN plugins
    /\ enabled_plugins # {}

----------------------------------------------------------------------------
(* The plugin registry (registry.py) *)

ClassOf(cls) == [k |-> "class", v |-> cls]

NoIdMsg(cls) == "Plugin class " \o cls \o " has no ID"

RegistryIds == {ClassId(cls) : cls \in Classes} \cup {"nonexistent"}

RegistryOnly == UNCHANGED <<plugins, enabled_plugins, pc, run, resp, parsed, fmtIn, fmtOut, pair, sched, db>>

\* _PLUGINS.get(plugin_id)
get_plugin_by_id(registry, plugin_id) ==
    IF plugin_id \in DOMAIN registry THEN ClassOf(registry[plugin_id]) ELSE Null

\* register_plugin keeping the class registered first under an id
RegistryRegisterKeepsFirst(plugin_class) ==
    /\ Len(regLog) < MaxRegs
    /\ IF ClassId(plugin_class) = ""
       THEN /\ ret' = Observed(Flip(ret.tick), "registry.register_plugin", ClassId(plugin_class),
                               << >>, NoLLM,
                               Traced(Raise(Exc("ValueError", NoIdMsg(plugin_class))), << >>),
                               NoRun)
            /\ regLog' = Append(regLog, [cls |-> plugin_class, raised |-> TRUE])
            /\ UNCHANGED PLUGINS
       ELSE /\ PLUGINS' = PLUGINS @@ (ClassId(plugin_class) :> plugin_class)
            /\ regLog' = Append(regLog, [cls |-> plugin_class, raised |-> FALSE])
            /\ ret' = Observed(Flip(ret.tick), "registry.register_plugin", ClassId(plugin_class),
                               << >>, NoLLM, Traced(Return(ClassOf(plugin_class)), << >>), NoRun)
    /\ RegistryOnly

\* registry.register_plugin(plugin_class); regLog records the calls made
RegistryRegister(plugin_class) ==
    /\ Len(regLog) < MaxRegs
    /\ IF ClassId(plugin_class) = ""
       THEN /\ ret' = Observed(Flip(ret.tick), "registry.register_plugin", ClassId(plugin_class),
                               << >>, NoLLM,
                               Traced(Raise(Exc("ValueError", NoIdMsg(plugin_class))), << >>),
                               NoRun)
            /\ regLog' = Append(regLog, [cls |-> plugin_class, raised |-> TRUE])
            /\ UNCHANGED PLUGINS
       ELSE /\ PLUGINS' = (ClassId(plugin_class) :> plugin_class) @@ PLUGINS
            /\ regLog' = Append(regLog, [cls |-> plugin_class, raised |-> FALSE])
            /\ ret' = Observed(Flip(ret.tick), "registry.register_plugin", ClassId(plugin_class),
                               << >>, NoLLM, Traced(Return(ClassOf(plugin_class)), << >>), NoRun)
    /\ RegistryOnly

\* a call of registry.get_plugin_by_id(plugin_id)
RegistryGet(plugin_id) ==
    /\ ret' = Observed(Flip(ret.tick), "get_plugin_by_id", plugin_id, << >>, NoLLM,
                       Traced(Return(get_plugin_by_id(PLUGINS, plugin_id)), << >>), NoRun)
    /\ UNCHANGED <<PLUGINS, regLog>>
    /\ RegistryOnly

\* the module as loaded: _PLUGINS = {}
InitRegistry ==
    /\ PLUGINS = EmptyMap
    /\ regLog = << >>
    /\ ret = Observed(0, "import", "", << >>, NoLLM, Traced(Return(Null), << >>), NoRun)
    /\ plugins = EmptyMap
    /\ enabled_plugins = {}
    /\ pc = "idle"
    /\ run = NoRun
    /\ resp = NoCall
    /\ parsed = NotParsed
    /\ fmtIn = NoFormat
    /\ fmtOut = NotFormatted
    /\ pair = NoPair
    /\ sched = NoSched
    /\ db = NoDb

NextRegistry ==
    \/ \E plugin_class \in Classes : RegistryRegister(plugin_class)
    \/ \E plugin_id \in RegistryIds : RegistryGet(plugin_id)

SpecRegistry == InitRegistry /\ [][NextRegistry]_vars

\* the calls of register_plugin so far that registered a class under id
RegisteredUnder(id) ==
    {i \in 1..Len(regLog) : ~regLog[i].raised /\ ClassId(regLog[i].cls) = id}

\* C7: get_plugin_by_id(id) returns the class of the most recent
\* register_plugin call for that id, None when there was none; registering a
\* class under an id already taken does not raise
C7_LastWriterWins ==
    /\ ret.op = "get_plugin_by_id" =>
          /\ ~ret.raised
          /\ IF RegisteredUnder(ret.id) = {}
             THEN ret.value = Null
             ELSE \E i \in RegisteredUnder(ret.id) :
                     /\ \A j \in RegisteredUnder(ret.id) : j <= i
                     /\ ret.value = [k |-> "class", v |-> regLog[i].cls]
    /\ \A i \in 1..Len(regLog) : regLog[i].raised <=> ClassId(regLog[i].cls) = ""

\* two classes were registered under one id and the lookup gave the second
C7_Witness ==
    /\ ret.op = "get_plugin_by_id"
    /\ ret.id = "custom.plugin"
    /\ \E i, j \in 1..Len(regLog) :
          /\ i < j
          /\ regLog[i].cls = "CustomPlugin"
          /\ regLog[j].cls = "CustomPluginV2"
          /\ \A n \in RegisteredUnder(ret.id) : n <= j
    /\ ret.value = [k |-> "class", v |-> "CustomPluginV2"]

----------------------------------------------------------------------------
(* analyze of a domain plugin on its own *)

ParseOnly == UNCHANGED <<plugins, enabled_plugins, pc, run, ret, PLUGINS, regLog, fmtIn, fmtOut, pair, sched, db>>

\* every response text of at most MaxRespLen tokens
Responses == SeqsUpTo(RespTokens, MaxRespLen)

\* await plugin.analyze(text, context) with the LLM behaving as resp.llm
Analyze ==
    /\ ~parsed.done
    /\ parsed' = [done |-> TRUE, out |-> AnalyzeDomain(resp.text, resp.context, resp.llm)]
    /\ UNCHANGED resp
    /\ ParseOnly

InitParse ==
    /\ resp \in [text : Texts, context : Contexts,
                 llm : {LLMRaise("timeout")} \cup {LLMContent(c) : c \in Responses}]
    /\ parsed = NotParsed
    /\ plugins = EmptyMap
    /\ enabled_plugins = {}
    /\ pc = "idle"
    /\ run = NoRun
    /\ ret = Observed(0, "__init__", "", << >>, NoLLM, Traced(Return(Null), << >>), NoRun)
    /\ PLUGINS = EmptyMap
    /\ regLog = << >>
    /\ fmtIn = NoFormat
    /\ fmtOut = NotFormatted
    /\ pair = NoPair
    /\ sched = NoSched
    /\ db = NoDb

NextParse == Analyze

SpecParse == InitParse /\ [][NextParse]_vars

\* C8: analyze returns the whole response parsed as JSON when it is JSON, else
\* the content of the fenced block parsed as JSON when there is one and it is
\* JSON, and in every other case exactly the could-not-parse result carrying
\* the response text
C8_ParseOrder ==
    (parsed.done /\ ~Blank(resp.text) /\ resp.llm.kind = "content") =>
        LET ai_response == resp.llm.content
            direct == json_loads(ai_response)
            block == FenceSearch(ai_response)
            inner == json_loads(block.group1)
        IN  /\ ~parsed.out.raised
            /\ parsed.out.value =
                  IF direct.ok THEN direct.value
                  ELSE IF block.found /\ inner.ok THEN inner.value
                  ELSE Dict("error" :> Str("Could not parse AI response as JSON")
                            @@ "raw_response" :> Raw(ai_response))

----------------------------------------------------------------------------
(* format_results of a domain plugin on its own *)

\* the most line items in a list of an analysis result
MaxItems == 1

FormatOnly == UNCHANGED <<plugins, enabled_plugins, pc, run, ret, PLUGINS, regLog, resp, parsed, pair, sched, db>>

\* a key under which the plugin's prompt asks for line items
ItemsKey(cls) ==
    CASE cls = "WallsPartitionsPlugin" -> "walls"
      [] cls = "DoorsWindowsPlugin" -> "doors"
      [] cls = "ElectricalSystemsPlugin" -> "power"
      [] cls = "PlumbingSystemsPlugin" -> "fixtures"
      [] cls = "HVACSystemsPlugin" -> "heating_systems"
      [] cls = "ConcreteStructuresPlugin" -> "foundations"

\* the quantities of a line item: positive, zero, negative, null
Quantities == {Q(3), Q(0), Q(-2), Null}

\* line items as the prompts describe them: with each quantity, without the
\* key quantity, and with dimension fields holding a number with its unit, a
\* string without digits, or null
LineItems(cls) ==
    LET described ==
          CASE cls = "WallsPartitionsPlugin" -> "material" :> Txt(<<"C", "o", "n", "c", "r", "e", "t", "e">>)
            [] cls = "DoorsWindowsPlugin" -> "type" :> Txt(<<"M", "e", "t", "a", "l">>) @@ "width" :> Txt(<<"4", "8", " ", "i", "n">>)
            [] cls = "ElectricalSystemsPlugin" -> "type" :> Txt(<<"G", "F", "C", "I">>)
            [] cls = "PlumbingSystemsPlugin" -> "type" :> Txt(<<"T", "o", "i", "l", "e", "t">>)
            [] cls = "HVACSystemsPlugin" -> "type" :> Txt(<<"F", "u", "r", "n", "a", "c", "e">>)
            [] cls = "ConcreteStructuresPlugin" -> "unit" :> Txt(<<"C", "Y">>)
        sized ==
          CASE cls = "WallsPartitionsPlugin" ->
                 {Dict("material" :> Txt(<<"C", "o", "n", "c", "r", "e", "t", "e">>) @@ "length" :> Txt(<<"1", "0", " ", "f", "t">>) @@ "height" :> height) :
                    height \in {Txt(<<"8", " ", "f", "t">>), Txt(<<"n", "/", "a">>), Null}}
                 \cup {Dict("material" :> Txt(<<"P", "l", "a", "s", "t", "e", "r", " ", "o", "n", " ", "c", "o", "n", "c", "r", "e", "t", "e">>) @@ "quantity" :> Q(3))}
            [] cls = "DoorsWindowsPlugin" ->
                 {Dict("type" :> Txt(<<"S", "w", "i", "n", "g">>) @@ "width" :> width @@ "quantity" :> Q(2)) :
                    width \in {Txt(<<"4", "8", " ", "i", "n">>), Txt(<<"4", "2", " ", "i", "n">>), Txt(<<"4", "2", ".", "5", " ", "i", "n">>), Txt(<<"n", "/", "a">>), Null}}
                 \cup {Dict("type" :> Txt(<<"S", "l", "i", "d", "i", "n", "g", " ", "G", "l", "a", "s", "s">>) @@ "quantity" :> Q(2))}
            [] cls = "HVACSystemsPlugin" ->
                 {Dict("type" :> Txt(<<"B", "o", "i", "l", "e", "r">>) @@ "capacity" :> capacity) :
                    capacity \in {Txt(<<"6", "0", "0", " ", "M", "B", "H">>), Txt(<<"2", ",", "0", "0", "0", " ", "M", "B", "H">>), Txt(<<"n", "/", "a">>), Null}}
            [] cls = "ConcreteStructuresPlugin" ->
                 {Dict("unit" :> Txt(<<"C", "Y">>) @@ "quantity" :> Q(3) @@ "dimensions" :> Txt(<<"4", " ", "f", "t">>) @@ "depth" :> depth) :
                    depth \in {Txt(<<"2", " ", "f", "t">>), Txt(<<"n", "/", "a">>), Null}}
            [] OTHER -> {}
    IN  {Dict(described @@ "quantity" :> quantity) : quantity \in Quantities}
        \cup {Dict(described)} \cup sized

\* beams with a width-by-depth string and a span
Beams ==
    {Dict("dimensions" :> dimensions @@ "span" :> Txt(<<"1", "0", " ", "f", "t">>)) :
       dimensions \in {Txt(<<"3", " ", "x", " ", "7">>), Txt(<<"3", "'", " ", "x", " ", "7", "'">>), Txt(<<"1", "2", "X", "2", "4">>), Txt(<<"n", "/", "a">>)}}

\* windows with a width and a height
Windows ==
    {Dict("type" :> Txt(<<"F", "i", "x", "e", "d">>) @@ "width" :> Txt(<<"3", "'">>) @@ "height" :> height) :
       height \in {Txt(<<"7", "'">>), Txt(<<"n", "/", "a">>)}}

\* an air handling unit with its air flow
AirHandlers == {Dict("type" :> Txt(<<"A", "H", "U">>) @@ "cfm" :> Txt(<<"1", "5", ",", "0", "0", "0", " ", "C", "F", "M">>))}

\* partitions with an area, and with a length and a height instead
Partitions ==
    {Dict("material" :> Txt(<<"P", "l", "a", "s", "t", "e", "r">>) @@ "quantity" :> Q(3)),
     Dict("material" :> Txt(<<"P", "l", "a", "s", "t", "e", "r">>) @@ "length" :> Txt(<<"1", "0", " ", "f", "t">>) @@ "height" :> Txt(<<"8", " ", "f", "t">>))}

\* what a result holds besides the line items of ItemsKey
OtherMembers(cls) ==
    {EmptyMap}
    \cup CASE cls = "ConcreteStructuresPlugin" ->
                {"beams" :> List(<<beam>>) : beam \in Beams}
                \cup {"quantity_summary" :> Dict("total_reinforcement_weight" :> weight) :
                        weight \in {Q(2), Null}}
           [] cls = "DoorsWindowsPlugin" -> {"windows" :> List(<<window>>) : window \in Windows}
           [] cls = "HVACSystemsPlugin" -> {"air_handling" :> List(<<unit>>) : unit \in AirHandlers}
           [] cls = "WallsPartitionsPlugin" ->
                {"partitions" :> List(<<partition>>) : partition \in Partitions}
           [] OTHER -> {}

ErrorMembers == {EmptyMap, "error" :> Str("Could not parse AI response as JSON"),
                 "error" :> Null}

CostBlocks ==
    {Null, Dict(EmptyMap)}
    \cup {Dict(key :> value) :
            key \in {"estimated_material_cost", "estimated_doors_cost",
                     "estimated_concrete_cost"},
            value \in {Null, Q(0), Q(500), Q(-5), Txt(<<"1", "0", "0", "0">>)}}

CostMembers == {EmptyMap} \cup {"cost_estimates" :> block : block \in CostBlocks}

ItemMembers(cls) ==
    {EmptyMap} \cup {ItemsKey(cls) :> List(items) : items \in SeqsUpTo(LineItems(cls), MaxItems)}

\* the results format_results is applied to: JSON objects, and JSON values that
\* are not objects
FormatInputs(cls) ==
    {Dict(e @@ c @@ i @@ o) : e \in ErrorMembers, c \in CostMembers,
                              i \in ItemMembers(cls), o \in OtherMembers(cls)}
    \cup {Null, Q(42), Txt(<<"e", "r", "r", "o", "r">>), List(<<Txt(<<"n", "/", "a">>)>>)}

\* plugin.format_results(results) for a plugin of class fmtIn.cls
Format ==
    /\ ~fmtOut.done
    /\ fmtOut' = [done |-> TRUE, out |-> format_results(fmtIn.cls, fmtIn.results)]
    /\ UNCHANGED fmtIn
    /\ FormatOnly

InitFmt ==
    /\ \E cls \in DomainClasses : \E results \in FormatInputs(cls) :
          fmtIn = [cls |-> cls, results |-> results]
    /\ fmtOut = NotFormatted
    /\ plugins = EmptyMap
    /\ enabled_plugins = {}
    /\ pc = "idle"
    /\ run = NoRun
    /\ ret = Observed(0, "__init__", "", << >>, NoLLM, Traced(Return(Null), << >>), NoRun)
    /\ PLUGINS = EmptyMap
    /\ regLog = << >>
    /\ resp = NoCall
    /\ parsed = NotParsed
    /\ pair = NoPair
    /\ sched = NoSched
    /\ db = NoDb

NextFmt == Format

SpecFmt == InitFmt /\ [][NextFmt]_vars

\* C9: format_results of each of the six domain plugins returns a result that
\* has the key error as it was given: no cost block added, none modified
C9_ErrorPassThrough ==
    (fmtOut.done /\ IsDict(fmtIn.results) /\ HasKey(fmtIn.results, "error")) =>
        /\ ~fmtOut.out.raised
        /\ fmtOut.out.value = fmtIn.results

\* a result with the key error, line items and no cost block went through
\* format_results of the concrete plugin
C9_Witness ==
    /\ fmtOut.done
    /\ fmtIn.cls = "ConcreteStructuresPlugin"
    /\ IsDict(fmtIn.results)
    /\ HasKey(fmtIn.results, "error")
    /\ HasKey(fmtIn.results, "foundations")
    /\ fmtIn.results.v["foundations"].v # << >>
    /\ ~HasKey(fmtIn.results, "cost_estimates")
    /\ fmtOut.out.value = fmtIn.results

\* C10: format_results of every domain plugin returns a result whose
\* cost_estimates block has a non-null estimated_material_cost (0 included) as
\* it was given
C10_ProvidedCostKept ==
    (/\ fmtOut.done
     /\ IsDict(fmtIn.results)
     /\ HasKey(fmtIn.results, "cost_estimates")
     /\ IsDict(fmtIn.results.v["cost_estimates"])
     /\ HasKey(fmtIn.results.v["cost_estimates"], "estimated_material_cost")
     /\ fmtIn.results.v["cost_estimates"].v["estimated_material_cost"] # Null) =>
        /\ ~fmtOut.out.raised
        /\ fmtOut.out.value = fmtIn.results

----------------------------------------------------------------------------
(* Two executions of run_all_enabled_plugins on one manager, one after the  *)
(* other, with the same text and context.  The LLM answers each plugin the  *)
(* same way in both, except the plugin called the victim, which it may      *)
(* answer differently.                                                      *)

PairLLMs == {LLMRaise("timeout"), LLMContent(<<"{", "notes", "}">>), LLMContent(<<"42">>)}

PairOnly == UNCHANGED <<PLUGINS, regLog, resp, parsed, fmtIn, fmtOut, run, sched, db>>

\* the first execution starts: results = {}, the iterator over enabled_plugins
PairStart(text, context, victim) ==
    /\ pc = "idle"
    /\ victim \in enabled_plugins
    /\ pc' = "pair"
    /\ pair' = [phase |-> "first", text |-> text, context |-> context,
                victim |-> victim, started |-> enabled_plugins, llms |-> EmptyMap,
                todo |-> enabled_plugins, first |-> EmptyMap, second |-> EmptyMap]
    /\ ret' = Observed(Flip(ret.tick), "run_all_enabled_plugins:running", "", text, NoLLM,
                       Traced(Return(Null), << >>), NoRun)
    /\ UNCHANGED <<plugins, enabled_plugins>>
    /\ PairOnly

\* one iteration of the loop in the first execution
PairStepFirst(plugin_id, llm) ==
    /\ pc = "pair"
    /\ pair.phase = "first"
    /\ plugin_id \in pair.todo
    /\ \E out \in {run_analysis(plugins, enabled_plugins, pair.text, plugin_id,
                               pair.context, llm)} :
          pair' = [pair EXCEPT
                     !.todo = @ \ {plugin_id},
                     !.llms = (plugin_id :> llm) @@ @,
                     !.first = StoreEntry(@, plugin_id, out)]
    /\ UNCHANGED <<plugins, enabled_plugins, pc, ret>>
    /\ PairOnly

\* the first execution returns and the second starts
PairSecond ==
    /\ pc = "pair"
    /\ pair.phase = "first"
    /\ pair.todo = {}
    /\ pair' = [pair EXCEPT !.phase = "second", !.todo = enabled_plugins]
    /\ UNCHANGED <<plugins, enabled_plugins, pc, ret>>
    /\ PairOnly

\* one iteration of the loop in the second execution: the LLM answers as in
\* the first, except for the victim
PairStepSecond(plugin_id, llm) ==
    /\ pc = "pair"
    /\ pair.phase = "second"
    /\ plugin_id \in pair.todo
    /\ plugin_id # pair.victim => llm = pair.llms[plugin_id]
    /\ \E out \in {run_analysis(plugins, enabled_plugins, pair.text, plugin_id,
                               pair.context, llm)} :
          pair' = [pair EXCEPT
                     !.todo = @ \ {plugin_id},
                     !.second = StoreEntry(@, plugin_id, out)]
    /\ UNCHANGED <<plugins, enabled_plugins, pc, ret>>
    /\ PairOnly

\* the second execution returns
PairReturn ==
    /\ pc = "pair"
    /\ pair.phase = "second"
    /\ pair.todo = {}
    /\ pc' = "idle"
    /\ ret' = Observed(Flip(ret.tick), "run_all_enabled_plugins", "", pair.text, NoLLM,
                       Traced(Return(Dict(pair.second)), << >>), NoRun)
    /\ pair' = NoPair
    /\ UNCHANGED <<plugins, enabled_plugins>>
    /\ PairOnly

NextPair ==
    \/ \E cls \in ManagerClasses : RegisterPlugin(cls)
    \/ \E plugin_id \in CallIds : EnablePlugin(plugin_id)
    \/ \E plugin_id \in CallIds : DisablePlugin(plugin_id)
    \/ \E text \in Texts, context \in Contexts, victim \in CallIds :
          PairStart(text, context, victim)
    \/ \E plugin_id \in CallIds, llm \in PairLLMs : PairStepFirst(plugin_id, llm)
    \/ PairSecond
    \/ \E plugin_id \in CallIds, llm \in PairLLMs : PairStepSecond(plugin_id, llm)
    \/ PairReturn

SpecPair == Init /\ [][NextPair]_vars

\* C3: when both executions have visited every enabled plugin, in whatever
\* orders, each plugin other than the victim has the same entry in both
C3_ResultIndependence ==
    (pair.phase = "second" /\ pair.todo = {}) =>
        \A a \in pair.started \ {pair.victim} :
            /\ a \in DOMAIN pair.first
            /\ a \in DOMAIN pair.second
            /\ pair.first[a] = pair.second[a]

\* the victim succeeded in the first execution and raised in the second, while
\* one other plugin failed and another succeeded in both
C3_Witness ==
    /\ pair.phase = "second"
    /\ pair.todo = {}
    /\ ~HasError(pair.first[pair.victim])
    /\ pair.second[pair.victim] = Dict("error" :> Str("timeout"))
    /\ \E a, b \in pair.started \ {pair.victim} :
          /\ HasError(pair.second[a])
          /\ ~HasError(pair.second[b])

----------------------------------------------------------------------------
(* Properties of the cost block of format_results, checked under SpecFmt *)

\* format_results returned a JSON object for a result without the key error
Formatted ==
    /\ fmtOut.done
    /\ IsDict(fmtIn.results)
    /\ ~HasKey(fmtIn.results, "error")
    /\ ~fmtOut.out.raised
    /\ IsDict(fmtOut.out.value)

\* the returned result has a cost_estimates block
HasCostBlock ==
    /\ Formatted
    /\ HasKey(fmtOut.out.value, "cost_estimates")
    /\ IsDict(fmtOut.out.value.v["cost_estimates"])

\* the cost block was computed by format_results, not supplied and kept
Computed ==
    /\ HasCostBlock
    /\ ~ReturnsEarly(fmtIn.cls, fmtIn.results)
    /\ CostsMissing(fmtIn.cls, fmtIn.results)

\* C11: every cost_estimates block in a result returned by format_results for
\* an analyze output without the key error carries currency = "USD", the
\* blocks supplied by the LLM and returned by the short circuit included
C11_CurrencyUSD ==
    HasCostBlock =>
        Get(fmtOut.out.value.v["cost_estimates"], "currency", Null) = Txt(<<"U", "S", "D">>)

\* the keys of cost_estimates that hold an estimated cost
CostFields ==
    {"estimated_material_cost", "estimated_labor_cost", "estimated_doors_cost",
     "estimated_windows_cost", "estimated_concrete_cost",
     "estimated_reinforcement_cost", "estimated_formwork_cost"}

\* C12: every estimated cost field of the cost_estimates block of a result
\* returned by format_results for an analyze output without the key error is
\* null or a non-negative number, whether the LLM supplied the value or
\* format_results computed it from line items of any quantity
C12_CostsNonNegative ==
    HasCostBlock =>
        \A key \in DOMAIN fmtOut.out.value.v["cost_estimates"].v \cap CostFields :
            LET cost == fmtOut.out.value.v["cost_estimates"].v[key]
            IN  cost = Null \/ (cost.k = "num" /\ cost.v >= 0)

\* the labor ratio of a plugin that estimates labor from the material cost, as
\* a fraction
LaborRatio(cls) ==
    CASE cls = "WallsPartitionsPlugin" -> <<65, 100>>
      [] cls = "ElectricalSystemsPlugin" -> <<70, 100>>
      [] cls = "PlumbingSystemsPlugin" -> <<110, 100>>
      [] cls = "HVACSystemsPlugin" -> <<90, 100>>

\* the number of cents of a cost field of the returned block, null counting 0
Cents(key) ==
    LET cost == Get(fmtOut.out.value.v["cost_estimates"], key, Null)
    IN  IF cost.k = "num" THEN cost.v ELSE 0

\* C13: when format_results computes the cost block, estimated_labor_cost is
\* estimated_material_cost times the plugin's labor ratio (walls 0.65,
\* electrical 0.70, plumbing 1.10, HVAC 0.90) to two decimals, and for concrete
\* it is 0.40 times the sum of the concrete, reinforcement and formwork costs;
\* no labor cost is given when there is no cost to take the ratio of
C13_LaborRatio ==
    Computed =>
        LET block == fmtOut.out.value.v["cost_estimates"]
            base == IF fmtIn.cls = "ConcreteStructuresPlugin"
                    THEN Cents("estimated_concrete_cost")
                         + Cents("estimated_reinforcement_cost")
                         + Cents("estimated_formwork_cost")
                    ELSE Cents("estimated_material_cost")
            ratio == IF fmtIn.cls = "ConcreteStructuresPlugin" THEN <<40, 100>>
                     ELSE LaborRatio(fmtIn.cls)
        IN  fmtIn.cls # "DoorsWindowsPlugin" =>
              /\ HasKey(block, "estimated_labor_cost")
              /\ block.v["estimated_labor_cost"] =
                   IF base > 0 THEN Num(RoundScaled(base, ratio[1], ratio[2])) ELSE Null

\* the sum over plumbing fixtures of unit rate times quantity, in cents, for
\* fixtures that state a type and a numeric quantity
RECURSIVE FixturesSum(_)
FixturesSum(fixtures) ==
    IF fixtures = << >> THEN 0
    ELSE (FixtureCost(LowerSeq(Head(fixtures).v["type"].v)) * Head(fixtures).v["quantity"].v) \div 100
         + FixturesSum(Tail(fixtures))

\* a plumbing result whose only content is fixtures of a numeric quantity
OnlyFixtures ==
    /\ fmtIn.cls = "PlumbingSystemsPlugin"
    /\ IsDict(fmtIn.results)
    /\ DOMAIN fmtIn.results.v = {"fixtures"}
    /\ \A i \in 1..Len(fmtIn.results.v["fixtures"].v) :
          LET fixture == fmtIn.results.v["fixtures"].v[i]
          IN  HasKey(fixture, "quantity") /\ fixture.v["quantity"].k = "num"

\* C14: the plumbing format_results adds to the material cost, for the
\* fixtures, the sum over the fixtures of the unit rate of the fixture's type
\* times its quantity; three toilets alone give 1050.00 of material and
\* 1155.00 of labor
C14_FixturesSum ==
    (fmtOut.done /\ OnlyFixtures) =>
        LET total == FixturesSum(fmtIn.results.v["fixtures"].v)
        IN  /\ ~fmtOut.out.raised
            /\ Cents("estimated_material_cost") = (IF total > 0 THEN total ELSE 0)
            /\ Cents("estimated_labor_cost") = (IF total > 0 THEN RoundScaled(total, 11, 10) ELSE 0)

\* the doors of a result that holds doors only: each with a type that names
\* no door of the table (300.00 a door), a width string and a numeric quantity
OnlyPlainDoors ==
    /\ fmtIn.cls = "DoorsWindowsPlugin"
    /\ IsDict(fmtIn.results)
    /\ DOMAIN fmtIn.results.v = {"doors"}
    /\ fmtIn.results.v["doors"].v # << >>
    /\ \A i \in 1..Len(fmtIn.results.v["doors"].v) :
          LET door == fmtIn.results.v["doors"].v[i]
          IN  /\ HasKey(door, "quantity") /\ door.v["quantity"].k = "num"
              /\ door.v["quantity"].v > 0
              /\ HasKey(door, "width") /\ door.v["width"].k = "txt"
              /\ door.v["type"] = Txt(<<"S", "w", "i", "n", "g">>)

\* the cost of plain doors in cents: 375.00 a door when the first number of
\* the width is above 42, else 300.00, times the quantity
RECURSIVE PlainDoorsCost(_)
PlainDoorsCost(doors) ==
    IF doors = << >> THEN 0
    ELSE LET width == FirstNumber(Head(doors).v["width"].v)
             unit == IF width.found /\ width.value > 4200 THEN 37500 ELSE 30000
         IN  (unit * Head(doors).v["quantity"].v) \div 100 + PlainDoorsCost(Tail(doors))

\* C15: the unit cost of a door is multiplied by 1.25 exactly when the first
\* number of its width is strictly above 42, once, before the multiplication
\* by the quantity: 375.00 a door at width 48 and a base of 300.00, 300.00 a
\* door at a width of 42 or less
C15_OversizedDoor ==
    (fmtOut.done /\ OnlyPlainDoors) =>
        /\ ~fmtOut.out.raised
        /\ Get(fmtOut.out.value.v["cost_estimates"], "estimated_doors_cost", Null)
             = Num(PlainDoorsCost(fmtIn.results.v["doors"].v))

\* two plain doors 48 wide went through format_results: 750.00
C15_Witness ==
    /\ fmtOut.done
    /\ OnlyPlainDoors
    /\ \E i \in 1..Len(fmtIn.results.v["doors"].v) :
          fmtIn.results.v["doors"].v[i].v["width"] = Txt(<<"4", "8", " ", "i", "n">>)
    /\ \A i \in 1..Len(fmtIn.results.v["doors"].v) :
          fmtIn.results.v["doors"].v[i].v["width"] = Txt(<<"4", "8", " ", "i", "n">>)
    /\ Len(fmtIn.results.v["doors"].v) = 1
    /\ fmtOut.out.value.v["cost_estimates"].v["estimated_doors_cost"] = Q(750)

\* what follows the first x or X of a string
AfterSeparator(s) ==
    LET at == {i \in 1..Len(s) : s[i] \in {"x", "X"}}
        i == CHOOSE x \in at : \A y \in at : x <= y
    IN  IF at = {} THEN << >> ELSE SubSeq(s, i + 1, Len(s))

\* the number read at the head of a string, 0 without a digit
NumberOrZero(s) == IF FirstNumber(s).found THEN FirstNumber(s).value ELSE 0

\* a concrete result whose only content is one beam with a dimensions string
\* and a span
OnlyOneBeam ==
    /\ fmtIn.cls = "ConcreteStructuresPlugin"
    /\ IsDict(fmtIn.results)
    /\ DOMAIN fmtIn.results.v = {"beams"}
    /\ Len(fmtIn.results.v["beams"].v) = 1

\* C16: of a width-by-height string the first numeric token is the width and
\* the numeric token after the x or X is the height (3.0 and 7.0 of 3' x 7'),
\* both 0 without digits, and nothing is raised: the formwork of a beam is
\* (width + 2 * height) * span at 22.00 a square foot
C16_CompoundDimension ==
    (fmtOut.done /\ OnlyOneBeam) =>
        LET beam == fmtIn.results.v["beams"].v[1]
            width == NumberOrZero(beam.v["dimensions"].v)
            height == NumberOrZero(AfterSeparator(beam.v["dimensions"].v))
            area == ((width + 2 * height) * NumberOrZero(beam.v["span"].v)) \div 100
        IN  /\ ~fmtOut.out.raised
            /\ Cents("estimated_formwork_cost") = area * 22

\* a result as the prompt of the plugin lays it out, without the key error:
\* a JSON object whose cost block, if any, is an object
FollowsSchema ==
    /\ IsDict(fmtIn.results)
    /\ ~HasKey(fmtIn.results, "error")
    /\ HasKey(fmtIn.results, "cost_estimates") => IsDict(fmtIn.results.v["cost_estimates"])

\* C17: format_results completes without raising on every result that follows
\* the schema, whether a dimension, capacity or quantity of a line item or of
\* the quantity summary is missing, null or a string without digits (the value
\* then counts as 0)
C17_NeverRaises ==
    (fmtOut.done /\ FollowsSchema) => ~fmtOut.out.raised

\* C18: when format_results computes a cost block, cost_estimates is the only
\* top-level key of the result that it adds or changes: the returned result
\* has the keys given and cost_estimates, and every other key has the value
\* it was given
C18_OnlyCostBlockWritten ==
    Computed =>
        /\ DOMAIN fmtOut.out.value.v = DOMAIN fmtIn.results.v \cup {"cost_estimates"}
        /\ \A key \in DOMAIN fmtIn.results.v \ {"cost_estimates"} :
              fmtOut.out.value.v[key] = fmtIn.results.v[key]

\* the HVAC format_results computed the block of a result with line items
\* and returned the line items as given
C18_Witness ==
    /\ Computed
    /\ fmtIn.cls = "HVACSystemsPlugin"
    /\ HasKey(fmtIn.results, "heating_systems")
    /\ fmtIn.results.v["heating_systems"].v # << >>
    /\ ~HasKey(fmtIn.results, "cost_estimates")
    /\ fmtOut.out.value.v["cost_estimates"].v["estimated_material_cost"] # Null
    /\ fmtOut.out.value.v["heating_systems"] = fmtIn.results.v["heating_systems"]

----------------------------------------------------------------------------
(* Frame and retry properties of the PluginManager, checked under Spec *)

\* a step of run_analysis or of run_all_enabled_plugins: a call of
\* run_analysis made, the loop entered, an iteration made, the map returned
RunStep ==
    \/ pc = "loop"
    \/ /\ ret'.tick # ret.tick
       /\ ret'.op \in {"run_analysis", "run_all_enabled_plugins:running",
                       "run_all_enabled_plugins"}

\* C19: run_analysis and run_all_enabled_plugins leave the plugin map and the
\* enabled set of the manager and the registry as they were, whether they
\* return or fail
C19_RunsLeaveManager ==
    [][RunStep => /\ plugins' = plugins
                  /\ enabled_plugins' = enabled_plugins
                  /\ PLUGINS' = PLUGINS]_vars

\* run_all_enabled_plugins returned after one plugin failed and another
\* succeeded, and both are registered and enabled as before
C19_Witness ==
    /\ ret.op = "run_all_enabled_plugins"
    /\ \E a, b \in ret.started :
          /\ a \in DOMAIN ret.failed
          /\ b \notin DOMAIN ret.failed
          /\ {a, b} \subseteq enabled_plugins
          /\ {a, b} \subseteq DOMAIN plugins

\* C20: nothing is retried: one call of run_analysis invokes analyze of the
\* plugin at most once, and one call of run_all_enabled_plugins invokes
\* analyze of each enabled plugin at most once, also when the call fails
C20_NoRetry ==
    /\ ret.op = "run_analysis" => Occurrences(ret.trace, "analyze") <= 1
    /\ \A id \in DOMAIN run.calls : Occurrences(run.calls[id], "analyze") <= 1
    /\ ret.op = "run_all_enabled_plugins" =>
          \A id \in DOMAIN ret.calls : Occurrences(ret.calls[id], "analyze") <= 1

\* analyze raised in a call of run_analysis, having been invoked once
C20_Witness ==
    /\ ret.op = "run_analysis"
    /\ ret.raised
    /\ ret.exc.type = "RuntimeError"
    /\ Occurrences(ret.trace, "analyze") = 1
    /\ Occurrences(ret.trace, "format_results") = 0

----------------------------------------------------------------------------
(* The event loop.  One task executes run_all_enabled_plugins and another   *)
(* one calls enable_plugin or disable_plugin.  The loop executes one task   *)
(* at a time and takes another only when the one it executes awaits         *)
(* something pending or ends.  analyze of the domain plugins calls          *)
(* openai.ChatCompletion.create, a plain function, and awaits nothing;      *)
(* analyze of a CustomPlugin awaits its LLM call.                           *)

SchedClasses == {"ElectricalSystemsPlugin", "WallsPartitionsPlugin", "CustomPlugin"}
SchedIds == {ClassId(cls) : cls \in SchedClasses}
SchedLLMs == {LLMRaise("timeout"), LLMContent(<<"{", "power", "}">>)}
SchedText == <<"a">>

SchedOnly == UNCHANGED <<plugins, pc, run, ret, PLUGINS, regLog, resp, parsed,
                         fmtIn, fmtOut, pair, db>>

\* the loop executes nothing and the task has not begun
CanRun(task) == sched.running = "none" /\ sched.at[task] = "ready"

\* an LLM call made by the task of run_all_enabled_plugins is outstanding
Outstanding == sched.at["run_all"] \in {"llm", "suspended"}

\* the task of run_all_enabled_plugins begins: results = {} and the iterator
\* over the set enabled_plugins, which notes the size of the set
SchedRunAll ==
    /\ CanRun("run_all")
    /\ sched' = [sched EXCEPT !.running = "run_all", !.at["run_all"] = "loop",
                              !.todo = enabled_plugins, !.started = enabled_plugins,
                              !.used = Cardinality(enabled_plugins)]
    /\ UNCHANGED enabled_plugins
    /\ SchedOnly

\* the for statement asks the iterator for the next id: RuntimeError (Set
\* changed size during iteration) outside the try when the size differs
SchedSetChanged ==
    /\ sched.running = "run_all"
    /\ sched.at["run_all"] = "loop"
    /\ Cardinality(enabled_plugins) # sched.used
    /\ sched' = [sched EXCEPT !.running = "none", !.at["run_all"] = "raised",
                              !.exc = Exc("RuntimeError", "Set changed size during iteration")]
    /\ UNCHANGED enabled_plugins
    /\ SchedOnly

\* the next id: run_analysis up to the LLM call made by analyze.  A domain
\* plugin keeps the loop until the call returns; a CustomPlugin awaits.
SchedCall(plugin_id) ==
    /\ sched.running = "run_all"
    /\ sched.at["run_all"] = "loop"
    /\ Cardinality(enabled_plugins) = sched.used
    /\ plugin_id \in sched.todo
    /\ sched' = IF plugins[plugin_id] = "CustomPlugin"
                THEN [sched EXCEPT !.running = "none", !.at["run_all"] = "suspended",
                                   !.calling = plugin_id]
                ELSE [sched EXCEPT !.at["run_all"] = "llm", !.calling = plugin_id]
    /\ UNCHANGED enabled_plugins
    /\ SchedOnly

\* the LLM call ends: the rest of run_analysis, then the entry is stored in
\* the try or in the except branch
SchedResponse(llm) ==
    /\ Outstanding
    /\ sched.running = (IF sched.at["run_all"] = "llm" THEN "run_all" ELSE "none")
    /\ \E out \in {run_analysis(plugins, enabled_plugins \cup {sched.calling}, SchedText,
                                sched.calling, Null, llm)} :
          sched' = [sched EXCEPT !.running = "run_all", !.at["run_all"] = "loop",
                                 !.todo = @ \ {sched.calling},
                                 !.results = StoreEntry(@, sched.calling, out)]
    /\ UNCHANGED enabled_plugins
    /\ SchedOnly

\* return results
SchedReturn ==
    /\ sched.running = "run_all"
    /\ sched.at["run_all"] = "loop"
    /\ Cardinality(enabled_plugins) = sched.used
    /\ sched.todo = {}
    /\ sched' = [sched EXCEPT !.running = "none", !.at["run_all"] = "done"]
    /\ UNCHANGED enabled_plugins
    /\ SchedOnly

\* the other task: enable_plugin(plugin_id) or disable_plugin(plugin_id)
SchedToggle(op, plugin_id) ==
    /\ CanRun("toggle")
    /\ enabled_plugins' = IF op = "enable_plugin" THEN enabled_plugins \cup {plugin_id}
                          ELSE enabled_plugins \ {plugin_id}
    /\ sched' = [sched EXCEPT !.at["toggle"] = "done",
                              !.overlapped = Outstanding,
                              !.toggled = enabled_plugins' # enabled_plugins]
    /\ SchedOnly

InitSched ==
    /\ plugins = [id \in SchedIds |-> CHOOSE cls \in SchedClasses : ClassId(cls) = id]
    /\ enabled_plugins \in SUBSET SchedIds
    /\ sched = [running |-> "none", at |-> [task \in {"run_all", "toggle"} |-> "ready"],
                todo |-> {}, started |-> {}, used |-> 0, calling |-> "",
                results |-> EmptyMap, exc |-> NoExc, overlapped |-> FALSE,
                toggled |-> FALSE]
    /\ pc = "idle"
    /\ run = NoRun
    /\ ret = Observed(0, "__init__", "", << >>, NoLLM, Traced(Return(Null), << >>), NoRun)
    /\ PLUGINS = EmptyMap
    /\ regLog = << >>
    /\ resp = NoCall
    /\ parsed = NotParsed
    /\ fmtIn = NoFormat
    /\ fmtOut = NotFormatted
    /\ pair = NoPair
    /\ db = NoDb

NextSched ==
    \/ SchedRunAll
    \/ SchedSetChanged
    \/ \E plugin_id \in SchedIds : SchedCall(plugin_id)
    \/ \E llm \in SchedLLMs : SchedResponse(llm)
    \/ SchedReturn
    \/ \E op \in {"enable_plugin", "disable_plugin"}, plugin_id \in SchedIds :
          SchedToggle(op, plugin_id)

SpecSched == InitSched /\ [][NextSched]_vars

\* C21: analyze of each plugin is a suspension point: while the LLM call of a
\* plugin is outstanding, another task of the same event loop that is ready
\* (an enable_plugin or disable_plugin call) can take its step
C21_AnalyzeSuspends ==
    (Outstanding /\ sched.at["toggle"] = "ready") => CanRun("toggle")

\* C29: when enable_plugin or disable_plugin runs while
\* run_all_enabled_plugins is suspended awaiting analyze of a plugin,
\* run_all_enabled_plugins still ends without raising, with one entry for
\* every id that was enabled when it began
C29_ToggleDuringRunAll ==
    (sched.overlapped /\ sched.at["run_all"] \in {"done", "raised"}) =>
        /\ sched.at["run_all"] = "done"
        /\ DOMAIN sched.results = sched.started

-----------------------------------------------------------------------------
(* SubscriptionService over the subscriptions, plugin_licenses and
   usage_records tables of one organization. Time is counted in periods of
   thirty days; db.now is the latest reading of datetime.utcnow(), and every
   call that reads the clock finds it there or later. *)

\* largest max_documents of a subscription
MaxDocs == 2
\* rows of usage_records
MaxRecords == 3
\* rows of plugin_licenses
MaxLicenses == 2
\* latest reading of the clock
MaxNow == 2

\* a nullable DateTime column holding NULL
NoDate == -1
\* datetime.utcnow() when the schemas module was loaded
ImportTime == 0
\* timedelta(days=30)
Monthly == 1
Dates == {NoDate, 1}
LicensedPlugins == {"mep.electrical", "mep.hvac"}
ActionTypes == {"document_upload", "plugin_use"}

SubOnly == UNCHANGED <<plugins, enabled_plugins, pc, run, ret, PLUGINS, regLog,
                       resp, parsed, fmtIn, fmtOut, pair, sched>>

Past(date, now) == date # NoDate /\ date < now

\* what the last call was, what it returned, and documents_used as it found it
Observe(op, arg, result) ==
    [op |-> op, arg |-> arg, result |-> result,
     before |-> IF db.subscriptions = << >> THEN 0
                ELSE db.subscriptions[1].documents_used]

get_organization_subscription(tables) ==
    IF tables.subscriptions = << >> THEN Null ELSE tables.subscriptions[1]

CreateSubscription(max_documents, billing_cycle, end_date) ==
    /\ db.subscriptions = << >>
    /\ LET until == IF end_date = NoDate /\ billing_cycle = "monthly"
                    THEN ImportTime + Monthly ELSE end_date
           row == [is_active |-> TRUE, max_documents |-> max_documents,
                   documents_used |-> 0, end_date |-> until]
           tables == [db EXCEPT !.subscriptions = <<row>>]
       IN db' = [tables EXCEPT !.last = Observe("create_subscription", "", Null)]
    /\ SubOnly

UpdateSubscription(key, value) ==
    /\ db.subscriptions # << >>
    /\ LET tables == [db EXCEPT !.subscriptions[1][key] = value]
       IN db' = [tables EXCEPT !.last = Observe("update_subscription", key, Null)]
    /\ SubOnly

RecordUsageCapped(action_type) ==
    /\ db.usage_records < MaxRecords
    /\ LET subscription == get_organization_subscription(db)
           counted == action_type = "document_upload" /\ subscription # Null
           used == IF subscription.documents_used < subscription.max_documents
                   THEN subscription.documents_used + 1
                   ELSE subscription.documents_used
           limit_exceeded == counted /\ used > subscription.max_documents
           added == [db EXCEPT !.usage_records = @ + 1]
           tables == IF counted
                     THEN [added EXCEPT !.subscriptions[1].documents_used = used]
                     ELSE added
       IN db' = [tables EXCEPT !.last =
                    Observe("record_usage", action_type,
                            <<Str("UsageRecord"), limit_exceeded>>)]
    /\ SubOnly

RecordUsage(action_type) ==
    /\ db.usage_records < MaxRecords
    /\ LET subscription == get_organization_subscription(db)
           counted == action_type = "document_upload" /\ subscription # Null
           used == subscription.documents_used + 1
           limit_exceeded == counted /\ used > subscription.max_documents
           added == [db EXCEPT !.usage_records = @ + 1]
           tables == IF counted
                     THEN [added EXCEPT !.subscriptions[1].documents_used = used]
                     ELSE added
       IN db' = [tables EXCEPT !.last =
                    Observe("record_usage", action_type,
                            <<Str("UsageRecord"), limit_exceeded>>)]
    /\ SubOnly

check_document_upload_allowed(tables) ==
    LET subscription == get_organization_subscription(tables)
    IN IF subscription = Null THEN <<FALSE, Str("No subscription found")>>
       ELSE IF ~subscription.is_active THEN <<FALSE, Str("Subscription is not active")>>
       ELSE IF Past(subscription.end_date, tables.now)
            THEN <<FALSE, Str("Subscription has expired")>>
       ELSE IF subscription.documents_used >= subscription.max_documents
            THEN <<FALSE, Str("Document limit reached ("
                              \o ToString(subscription.max_documents) \o ")")>>
       ELSE <<TRUE, Null>>

CheckDocumentUploadAllowed ==
    /\ \E now \in db.now..MaxNow :
          LET tables == [db EXCEPT !.now = now]
          IN db' = [tables EXCEPT !.last =
                       Observe("check_document_upload_allowed", "",
                               check_document_upload_allowed(tables))]
    /\ SubOnly

CreatePluginLicense(plugin_id, is_active, billing_cycle, expiry_date) ==
    /\ Len(db.licenses) < MaxLicenses
    /\ LET until == IF expiry_date = NoDate /\ billing_cycle = "monthly"
                    THEN ImportTime + Monthly ELSE expiry_date
           row == [plugin_id |-> plugin_id, is_active |-> is_active,
                   expiry_date |-> until]
           tables == [db EXCEPT !.licenses = Append(@, row)]
       IN db' = [tables EXCEPT !.last = Observe("create_plugin_license", plugin_id, Null)]
    /\ SubOnly

UpdatePluginLicense(id, key, value) ==
    /\ id \in DOMAIN db.licenses
    /\ LET tables == [db EXCEPT !.licenses[id][key] = value]
       IN db' = [tables EXCEPT !.last = Observe("update_plugin_license", key, Null)]
    /\ SubOnly

\* the rows the query of check_plugin_access selects
ActiveLicenses(tables, plugin_id) ==
    {id \in DOMAIN tables.licenses :
        /\ tables.licenses[id].plugin_id = plugin_id
        /\ tables.licenses[id].is_active}

\* the outcome when the query's first() yields the given row
check_plugin_access(tables, plugin_license) ==
    IF plugin_license = Null THEN <<FALSE, Str("No license found")>>
    ELSE IF Past(plugin_license.expiry_date, tables.now)
         THEN <<FALSE, Str("License expired")>>
    ELSE <<TRUE, Null>>

\* the query has no ORDER BY: first() may yield any of the selected rows
CheckPluginAccess(plugin_id) ==
    /\ \E now \in db.now..MaxNow :
       \E plugin_license \in
            IF ActiveLicenses(db, plugin_id) = {} THEN {Null}
            ELSE {db.licenses[id] : id \in ActiveLicenses(db, plugin_id)} :
          LET tables == [db EXCEPT !.now = now]
          IN db' = [tables EXCEPT !.last =
                       Observe("check_plugin_access", plugin_id,
                               check_plugin_access(tables, plugin_license))]
    /\ SubOnly

InitSub ==
    /\ db = [subscriptions |-> << >>, licenses |-> << >>, usage_records |-> 0,
             now |-> ImportTime,
             last |-> [op |-> "none", arg |-> "", result |-> Null, before |-> 0]]
    /\ plugins = EmptyMap
    /\ enabled_plugins = {}
    /\ pc = "idle"
    /\ run = NoRun
    /\ ret = Observed(0, "__init__", "", << >>, NoLLM, Traced(Return(Null), << >>), NoRun)
    /\ PLUGINS = EmptyMap
    /\ regLog = << >>
    /\ resp = NoCall
    /\ parsed = NotParsed
    /\ fmtIn = NoFormat
    /\ fmtOut = NotFormatted
    /\ pair = NoPair
    /\ sched = NoSched

\* the calls on the subscription and its usage
NextSub ==
    \/ \E max_documents \in 1..MaxDocs, billing_cycle \in {"monthly", "one-time"},
          end_date \in Dates :
          CreateSubscription(max_documents, billing_cycle, end_date)
    \/ \E is_active \in BOOLEAN : UpdateSubscription("is_active", is_active)
    \/ \E end_date \in Dates : UpdateSubscription("end_date", end_date)
    \/ \E action_type \in ActionTypes : RecordUsage(action_type)
    \/ CheckDocumentUploadAllowed

SpecSub == InitSub /\ [][NextSub]_vars

\* the calls on the plugin licenses
NextLicense ==
    \/ \E plugin_id \in LicensedPlugins, is_active \in BOOLEAN,
          billing_cycle \in {"monthly", "one-time"}, expiry_date \in Dates :
          CreatePluginLicense(plugin_id, is_active, billing_cycle, expiry_date)
    \/ \E id \in 1..MaxLicenses, is_active \in BOOLEAN :
          UpdatePluginLicense(id, "is_active", is_active)
    \/ \E id \in 1..MaxLicenses, expiry_date \in Dates :
          UpdatePluginLicense(id, "expiry_date", expiry_date)
    \/ \E plugin_id \in LicensedPlugins : CheckPluginAccess(plugin_id)

SpecLicense == InitSub /\ [][NextLicense]_vars

Recorded ==
    /\ db.last.op = "record_usage"
    /\ db.last.arg = "document_upload"
    /\ db.subscriptions # << >>

Checked ==
    /\ db.last.op = "check_document_upload_allowed"
    /\ db.subscriptions # << >>
    /\ db.subscriptions[1].documents_used >= db.subscriptions[1].max_documents

LimitReason(subscription) ==
    Str("Document limit reached (" \o ToString(subscription.max_documents) \o ")")

\* a document_upload adds exactly one to documents_used, and the flag says
\* whether the new count is above max_documents
CountedOnce ==
    Recorded =>
        /\ db.subscriptions[1].documents_used = db.last.before + 1
        /\ db.last.result[2] =
              (db.subscriptions[1].documents_used > db.subscriptions[1].max_documents)

AccessChecked == db.last.op = "check_plugin_access"

\* the organization holds an active license for the plugin that has no expiry
\* date or one that is not in the past
HasValidLicense(plugin_id) ==
    \E id \in ActiveLicenses(db, plugin_id) : ~Past(db.licenses[id].expiry_date, db.now)

\* C23: check_plugin_access answers (True, None) exactly when the organization
\* holds an active license for the plugin whose expiry date is absent or not
\* in the past, (False, 'License expired') when the active license has an
\* expiry date in the past, and (False, 'No license found') when no license
\* of the plugin is active
C23_PluginAccess ==
    AccessChecked =>
        /\ (db.last.result = <<TRUE, Null>>) <=> HasValidLicense(db.last.arg)
        /\ (ActiveLicenses(db, db.last.arg) # {} /\ ~HasValidLicense(db.last.arg))
              => db.last.result = <<FALSE, Str("License expired")>>
        /\ ActiveLicenses(db, db.last.arg) = {}
              => db.last.result = <<FALSE, Str("No license found")>>

\* C30: format_results of every domain plugin is idempotent: applied to a result
\* it returned without raising, it returns that result again, whether the
\* first application computed the cost block, stored null costs, or returned
\* the result as it was
C30_Idempotent ==
    (fmtOut.done /\ ~fmtOut.out.raised) =>
        format_results(fmtIn.cls, fmtOut.out.value) = Return(fmtOut.out.value)

\* format_results computed a block whose provided cost is null, so that a
\* second application computes again, and gave the same result
C30_Witness ==
    /\ Computed
    /\ Truthy(Get(fmtIn.results, ItemsKey(fmtIn.cls), Null))
    /\ Get(fmtOut.out.value.v["cost_estimates"], ProvidedKey(fmtIn.cls), Null) = Null
    /\ format_results(fmtIn.cls, fmtOut.out.value) = Return(fmtOut.out.value)

\* an HVAC result that holds one list with one unit and nothing else
OnlyUnit(key, unit) ==
    /\ fmtOut.done
    /\ fmtIn.cls = "HVACSystemsPlugin"
    /\ fmtIn.results = Dict(key :> List(<<unit>>))

\* C24: the numeric parser tolerates thousands separators: 2,000 MBH is read
\* as 2000 and 15,000 CFM as 15000, so that a boiler of capacity 2,000 MBH is
\* priced in the large tier and an air handling unit of 15,000 CFM in the
\* large tier
C24_ThousandsSeparator ==
    /\ OnlyUnit("heating_systems",
                Dict("type" :> Txt(<<"B", "o", "i", "l", "e", "r">>) @@ "capacity" :> Txt(<<"2", ",", "0", "0", "0", " ", "M", "B", "H">>)))
         => (~fmtOut.out.raised /\ Cents("estimated_material_cost") = HVACCosts.boiler_large)
    /\ OnlyUnit("air_handling",
                Dict("type" :> Txt(<<"A", "H", "U">>) @@ "cfm" :> Txt(<<"1", "5", ",", "0", "0", "0", " ", "C", "F", "M">>)))
         => (~fmtOut.out.raised /\ Cents("estimated_material_cost") = HVACCosts.ahu_large)

\* a result of the doors plugin that holds one door and nothing else: the door
\* has a type, a positive quantity and, if any, a width string
OneDoor ==
    /\ fmtOut.done
    /\ fmtIn.cls = "DoorsWindowsPlugin"
    /\ IsDict(fmtIn.results)
    /\ DOMAIN fmtIn.results.v = {"doors"}
    /\ Len(fmtIn.results.v["doors"].v) = 1
    /\ LET door == fmtIn.results.v["doors"].v[1]
       IN  /\ {"type", "quantity"} \subseteq DOMAIN door.v
           /\ door.v["quantity"].k = "num" /\ door.v["quantity"].v > 0
           /\ HasKey(door, "width") => door.v["width"].k = "txt"

\* a result of the walls plugin that holds one wall and nothing else: the wall
\* has a material and a positive area
OneWall ==
    /\ fmtOut.done
    /\ fmtIn.cls = "WallsPartitionsPlugin"
    /\ IsDict(fmtIn.results)
    /\ DOMAIN fmtIn.results.v = {"walls"}
    /\ Len(fmtIn.results.v["walls"].v) = 1
    /\ LET wall == fmtIn.results.v["walls"].v[1]
       IN  /\ DOMAIN wall.v = {"material", "quantity"}
           /\ wall.v["quantity"].k = "num" /\ wall.v["quantity"].v > 0

\* the price of the first keyword of the table, read from the top, that the
\* label contains; the price of the entry general when it contains none
RECURSIVE InTableOrder(_, _, _)
InTableOrder(rows, label, general) ==
    IF rows = << >> THEN general
    ELSE IF Contains(label, Head(rows)[1]) THEN Head(rows)[2]
    ELSE InTableOrder(Tail(rows), label, general)

General(table) ==
    LET at == CHOOSE i \in 1..Len(table) : table[i][1] = <<"g", "e", "n", "e", "r", "a", "l">> IN table[at][2]

\* the unit price of a door with the premium of a quarter for a width above 42
Widened(price, door) ==
    IF /\ HasKey(door, "width")
       /\ FirstNumber(door.v["width"].v).found
       /\ FirstNumber(door.v["width"].v).value > 4200
    THEN (price * 125) \div 100 ELSE price

\* the costed item of OneDoor or OneWall
TheDoor == fmtIn.results.v["doors"].v[1]
TheWall == fmtIn.results.v["walls"].v[1]

C26_LongestKeyword ==
    OneDoor =>
        /\ ~fmtOut.out.raised
        /\ Cents("estimated_doors_cost") =
             (Widened(LongestMatch(DoorCosts, LowerSeq(TheDoor.v["type"].v),
                                   General(DoorCosts)), TheDoor)
                * TheDoor.v["quantity"].v) \div 100

\* a wall or partition with a material and either a positive area or, without
\* a quantity, a length and a height that hold a number
Measured(item) ==
    /\ IsDict(item)
    /\ HasKey(item, "material") /\ item.v["material"].k = "txt"
    /\ \/ /\ HasKey(item, "quantity")
          /\ item.v["quantity"].k = "num" /\ item.v["quantity"].v > 0
       \/ /\ ~HasKey(item, "quantity")
          /\ HasKey(item, "length") /\ item.v["length"].k = "txt"
          /\ HasKey(item, "height") /\ item.v["height"].k = "txt"
          /\ FirstNumber(item.v["length"].v).found
          /\ FirstNumber(item.v["height"].v).found

\* the area of a measured item, in hundredths of a square foot
MeasuredArea(item) ==
    IF HasKey(item, "quantity") THEN item.v["quantity"].v
    ELSE (FirstNumber(item.v["length"].v).value
            * FirstNumber(item.v["height"].v).value) \div 100

\* the line costs of measured items, in cents
RECURSIVE LineCosts(_)
LineCosts(items) ==
    IF items = << >> THEN 0
    ELSE (InTableOrder(WallCosts, LowerSeq(Head(items).v["material"].v), General(WallCosts))
            * MeasuredArea(Head(items))) \div 100
         + LineCosts(Tail(items))

\* the walls and the partitions of the result given to format_results
WallsAndPartitions ==
    Get(fmtIn.results, "walls", List(<< >>)).v
    \o Get(fmtIn.results, "partitions", List(<< >>)).v

\* a walls result that holds measured walls and partitions and nothing else
OnlyMeasured ==
    /\ fmtOut.done
    /\ fmtIn.cls = "WallsPartitionsPlugin"
    /\ IsDict(fmtIn.results)
    /\ DOMAIN fmtIn.results.v \subseteq {"walls", "partitions"}
    /\ WallsAndPartitions # << >>
    /\ \A i \in 1..Len(WallsAndPartitions) : Measured(WallsAndPartitions[i])

\* C27: in the walls calculator every line item adds its line cost to
\* estimated_material_cost: a wall or partition without a quantity but with a
\* length and a height that hold a number adds length x height x unit price,
\* and partitions are costed also when there are no walls
C27_EveryLineItemCosted ==
    OnlyMeasured =>
        /\ HasCostBlock
        /\ Cents("estimated_material_cost") = LineCosts(WallsAndPartitions)

-----------------------------------------------------------------------------
(* The enabled set of the PluginManager, checked under Spec *)

\* the entry run_all_enabled_plugins stores for a plugin that run_analysis
\* found unregistered or not enabled
RefusedEntries(plugin_id) ==
    {ErrorEntry(Exc("ValueError", NotFoundMsg(plugin_id))),
     ErrorEntry(Exc("ValueError", NotEnabledMsg(plugin_id)))}

\* C28: in every state of the PluginManager reached by register_plugin,
\* enable_plugin and disable_plugin calls, failed ones included, every enabled
\* id is a registered id; hence no entry of a run_all_enabled_plugins result is
\* a not found or a not enabled error
C28_EnabledAreRegistered ==
    /\ enabled_plugins \subseteq DOMAIN plugins
    /\ \A plugin_id \in DOMAIN run.results :
          run.results[plugin_id] \notin RefusedEntries(plugin_id)
    /\ (ret.op = "run_all_enabled_plugins" /\ ~ret.raised) =>
          \A plugin_id \in DOMAIN ret.value.v :
              ret.value.v[plugin_id] \notin RefusedEntries(plugin_id)

\* run_all_enabled_plugins returned entries while a registered plugin was not
\* enabled
C28_Witness ==
    /\ ret.op = "run_all_enabled_plugins"
    /\ DOMAIN ret.value.v # {}
    /\ DOMAIN ret.value.v = enabled_plugins
    /\ enabled_plugins # DOMAIN plugins

====
